---- MODULE Spec2Model ----
(***************************************************************************)
(* A model of the lobster pipeline shell:                                  *)
(*   - the continuation codec (token.ts: encodeToken / decodeToken),       *)
(*   - the pipeline engines (runtime.ts runPipeline, sdk/runtime.ts        *)
(*     runPipelineInternal) and the SDK workflow object (sdk/Lobster.ts:   *)
(*     pipe / run / resume) with the approve gates,                        *)
(*   - the validated invocation loop of llm_task.invoke with its run-state *)
(*     store and content cache.                                            *)
(* Four specifications share the module: Spec (engine and workflow),       *)
(* SpecToken (codec), SpecLlm (llm_task.invoke) and SpecKey (the cache key *)
(* of llm_task.invoke).                                                    *)
(***************************************************************************)
EXTENDS Integers, Sequences, FiniteSets, TLC

VARIABLES
  \* ---- codec (SpecToken)
  tkSrc,        \* the record last handed to encodeToken, or NoValue
  tkToken,      \* the token text in flight (base64url characters, as 0..63)
  tkOut,        \* the outcome of the last decodeToken, or NoValue
  tkCut,        \* TRUE when the token in flight was truncated or forged
  \* ---- workflow object and engine (Spec)
  stages,       \* Lobster.#stages
  pc,           \* "ready" | "loop" | "exit" : position of the invocation in flight
  call,         \* the invocation in flight or last finished
  rstages,      \* engine: the stage list of this invocation
  idx,          \* engine: loop index (0-based, into rstages)
  stream,       \* engine: the current stream (materialised)
  halted,       \* engine: halted flag
  haltedAt,     \* engine: {index, stage} of the halting stage, or JNull
  executed,     \* history: absolute indices whose run was invoked in this invocation
  gateInput,    \* history: the items the halting stage received
  ret,          \* what the engine returned to its caller (or that it threw)
  result,       \* what the invocation returned (or how it ended)
  prevCall,     \* history: the invocation before the current one
  prevResult,   \* history: what that invocation returned
  issued,       \* history: the tokens returned so far
  execCount,    \* history: per absolute stage index, number of executions since run
  chain,        \* history: TRUE while each token was resumed once, in order, approved
  calls,        \* number of invocations started (bounded by MaxCalls)
  \* ---- llm_task.invoke (SpecLlm)
  procEnv,      \* the process environment of the invocations
  runState,     \* run-state store: file key -> record or NoValue
  cache,        \* content cache: cache key -> entry or NoValue
  llm,          \* the invocation in flight or last finished (lookups: the stores
                \* it read, via: the transport of each of its calls)
  prev,         \* history: the invocation before the current one, in short
  log,          \* history: the invocations that succeeded before the current one
  runStateBefore, \* history: the run-state store when the current invocation began
  cacheBefore,  \* history: the content cache when the current invocation began
  clock,        \* number of llm invocations started (bounded by MaxInvocations)
  \* ---- cache key derivation (SpecKey)
  kcCalls,      \* the two calls whose keys are derived, or NoValue
  kcKeys,       \* the cache keys derived for the two calls, or NoValue
  \* ---- router transport (SpecWire)
  wire,         \* the response body the router sent, or NoValue
  wireOut,      \* what the invocation made of it, or NoValue
  \* ---- stage forms and the registry (SpecForms)
  pl            \* one pipeline run: the engine, the stage list, the loop index,
                \* the generator stages pending in the stream, the trace of
                \* stage executions, and what the engine returned
  ,
  \* ---- two concurrent invocations of llm_task.invoke (SpecRace)
  racers,       \* per invocation: its position in run, the items it made,
                \* and whether both of its lookups missed
  laterHit,     \* the items a later invocation got from the cache, or none
  \* ---- the approval gate in a pipeline (SpecGate)
  gate,         \* one run of a gate and the stage after it: the gate's
                \* arguments, the context, the items it received, what it
                \* returned, and what the stage after it received
  \* ---- the state directory (SpecState)
  stateFiles,   \* the text of each file of the state directory, <<>> if absent
  storedValues, \* history: the value last written to each file, or none
  diffInputs,   \* history: the key and the input of the last diff.last run
  stateOp,      \* the last operation on the directory and what it returned
  \* ---- the email triage (SpecTriage)
  triage        \* the emails consumed and the report built from them

tokenVars == <<tkSrc, tkToken, tkOut, tkCut>>
engineVars == <<stages, pc, call, rstages, idx, stream, halted, haltedAt,
                executed, gateInput, ret, result, prevCall, prevResult, issued,
                execCount, chain, calls>>
llmVars == <<procEnv, runState, cache, llm, prev, log, runStateBefore, cacheBefore,
            clock>>
keyVars == <<kcCalls, kcKeys>>
wireVars == <<wire, wireOut>>
plVars == <<pl>>
raceVars == <<racers, laterHit>>
gateVars == <<gate>>
stateVars == <<stateFiles, storedValues, diffInputs, stateOp>>
triageVars == <<triage>>
vars == <<tokenVars, engineVars, llmVars, keyVars, wireVars, plVars, raceVars, gateVars, stateVars, triageVars>>

NoValue == [t |-> "undefined"]

(***************************************************************************)
(* JSON values.  Strings are sequences of code points; an object is the    *)
(* sequence of its members in insertion order.                             *)
(***************************************************************************)
JNull == [t |-> "null"]
JBool(b) == [t |-> "bool", b |-> b]
JNum(n) == [t |-> "num", n |-> n]
JStr(s) == [t |-> "str", s |-> s]
JArr(a) == [t |-> "arr", a |-> a]
JObj(o) == [t |-> "obj", o |-> o]
Member(k, v) == [k |-> k, v |-> v]

\* The property names and literals the program uses, as code points.
Txt ==
  [ null |-> <<110, 117, 108, 108>>,
    true |-> <<116, 114, 117, 101>>,
    false |-> <<102, 97, 108, 115, 101>>,
    protocolVersion |-> <<112, 114, 111, 116, 111, 99, 111, 108, 86, 101, 114, 115, 105, 111, 110>>,
    v |-> <<118>>,
    stageIndex |-> <<115, 116, 97, 103, 101, 73, 110, 100, 101, 120>>,
    resumeAtIndex |-> <<114, 101, 115, 117, 109, 101, 65, 116, 73, 110, 100, 101, 120>>,
    items |-> <<105, 116, 101, 109, 115>>,
    prompt |-> <<112, 114, 111, 109, 112, 116>>,
    pipeline |-> <<112, 105, 112, 101, 108, 105, 110, 101>>,
    type |-> <<116, 121, 112, 101>>,
    approval_request |-> <<97, 112, 112, 114, 111, 118, 97, 108, 95, 114, 101, 113, 117, 101, 115, 116>>,
    itemCount |-> <<105, 116, 101, 109, 67, 111, 117, 110, 116>>,
    name |-> <<110, 97, 109, 101>>,
    args |-> <<97, 114, 103, 115>>,
    first |-> <<102, 105, 114, 115, 116, 63>>,
    second |-> <<115, 101, 99, 111, 110, 100, 63>>,
    pick |-> <<112, 105, 99, 107>>,
    a |-> <<97>>,
    quoted |-> <<115, 97, 121, 32, 34, 104, 105, 34>>,
    backslash |-> <<97, 92, 98>>,
    accent |-> <<99, 97, 102, 233>>,
    p1 |-> <<112, 49>>,
    p2 |-> <<112, 50>>,
    m1 |-> <<109, 49>>,
    v1 |-> <<118, 49>>,
    v2 |-> <<118, 50>>,
    clawd_default |-> <<99, 108, 97, 119, 100, 45, 100, 101, 102, 97, 117, 108, 116>>,
    model |-> <<109, 111, 100, 101, 108>>,
    schemaVersion |-> <<115, 99, 104, 101, 109, 97, 86, 101, 114, 115, 105, 111, 110>>,
    artifactHashes |-> <<97, 114, 116, 105, 102, 97, 99, 116, 72, 97, 115, 104, 101, 115>>,
    outputSchema |-> <<111, 117, 116, 112, 117, 116, 83, 99, 104, 101, 109, 97>>,
    kind |-> <<107, 105, 110, 100>>,
    text |-> <<116, 101, 120, 116>>,
    data |-> <<100, 97, 116, 97>>,
    json |-> <<106, 115, 111, 110>>,
    object |-> <<111, 98, 106, 101, 99, 116>>,
    properties |-> <<112, 114, 111, 112, 101, 114, 116, 105, 101, 115>>,
    required |-> <<114, 101, 113, 117, 105, 114, 101, 100>>,
    decision |-> <<100, 101, 99, 105, 115, 105, 111, 110>>,
    b |-> <<98>>,
    ok |-> <<111, 107>>,
    result |-> <<114, 101, 115, 117, 108, 116>>,
    output |-> <<111, 117, 116, 112, 117, 116>>,
    status |-> <<115, 116, 97, 116, 117, 115>>,
    completed |-> <<99, 111, 109, 112, 108, 101, 116, 101, 100>>,
    y |-> <<121>>,
    n |-> <<110>>,
    yes |-> <<121, 101, 115>>,
    newline |-> <<110, 10>> ]

\* Object property read: obj[k], NoValue when absent (JS undefined).
RECURSIVE GetFrom(_, _, _)
GetFrom(o, k, i) ==
  IF i > Len(o) THEN NoValue
  ELSE IF o[i].k = k THEN o[i].v
  ELSE GetFrom(o, k, i + 1)

Get(val, k) == IF val.t = "obj" THEN GetFrom(val.o, k, 1) ELSE NoValue

\* Object property write as JSON.parse does it: a repeated key keeps its
\* first position and takes the last value.
ObjSet(o, k, v) ==
  IF \E i \in 1..Len(o) : o[i].k = k
  THEN [i \in 1..Len(o) |-> IF o[i].k = k THEN Member(k, v) ELSE o[i]]
  ELSE Append(o, Member(k, v))

(***************************************************************************)
(* JSON.stringify (token.ts:4), without indentation.                       *)
(***************************************************************************)
RECURSIVE DecChars(_)
DecChars(n) ==
  IF n < 10 THEN <<48 + n>>
  ELSE Append(DecChars(n \div 10), 48 + (n % 10))

NumChars(n) == IF n < 0 THEN <<45>> \o DecChars(-n) ELSE DecChars(n)

HexDigit(d) == IF d < 10 THEN 48 + d ELSE 87 + d

\* A variant that escapes nothing: the round trip must not survive it.
EscapeNothing(c) == <<c>>

EscapeChar(c) ==
  IF c = 34 THEN <<92, 34>>
  ELSE IF c = 92 THEN <<92, 92>>
  ELSE IF c = 8 THEN <<92, 98>>
  ELSE IF c = 9 THEN <<92, 116>>
  ELSE IF c = 10 THEN <<92, 110>>
  ELSE IF c = 12 THEN <<92, 102>>
  ELSE IF c = 13 THEN <<92, 114>>
  ELSE IF c < 32 THEN <<92, 117, 48, 48, HexDigit(c \div 16), HexDigit(c % 16)>>
  ELSE <<c>>

\* The concatenation of pieces[lo..hi] (split in halves: the depth of the
\* evaluation stays logarithmic in the length of the text).
RECURSIVE Concat(_, _, _)
Concat(pieces, lo, hi) ==
  IF lo > hi THEN <<>>
  ELSE IF lo = hi THEN pieces[lo]
  ELSE Concat(pieces, lo, (lo + hi) \div 2) \o Concat(pieces, ((lo + hi) \div 2) + 1, hi)

Quote(s) == <<34>> \o Concat([i \in 1..Len(s) |-> EscapeChar(s[i])], 1, Len(s)) \o <<34>>

\* A property whose value is undefined is left out of an object; undefined
\* in an array is written as null.
Defined(o) == SelectSeq(o, LAMBDA m : m.v.t # "undefined")

RECURSIVE Stringify(_)
RECURSIVE StringifyElems(_, _)
RECURSIVE StringifyMembers(_, _)
Stringify(val) ==
  CASE val.t = "null" -> Txt.null
    [] val.t = "undefined" -> Txt.null
    [] val.t = "bool" -> (IF val.b THEN Txt.true ELSE Txt.false)
    [] val.t = "num" -> NumChars(val.n)
    [] val.t = "str" -> Quote(val.s)
    [] val.t = "arr" -> <<91>> \o StringifyElems(val.a, 1) \o <<93>>
    [] val.t = "obj" -> <<123>> \o StringifyMembers(Defined(val.o), 1) \o <<125>>

StringifyElems(a, i) ==
  IF i > Len(a) THEN <<>>
  ELSE (IF i > 1 THEN <<44>> ELSE <<>>) \o Stringify(a[i]) \o StringifyElems(a, i + 1)

StringifyMembers(o, i) ==
  IF i > Len(o) THEN <<>>
  ELSE (IF i > 1 THEN <<44>> ELSE <<>>) \o Quote(o[i].k) \o <<58>>
       \o Stringify(o[i].v) \o StringifyMembers(o, i + 1)

(***************************************************************************)
(* JSON.parse (token.ts:11).  Numbers are integers (the model's JSON       *)
(* values hold no fractions or exponents).                                 *)
(***************************************************************************)
ParseFail == [ok |-> FALSE]
Parsed(val, next) == [ok |-> TRUE, v |-> val, next |-> next]

RECURSIVE SkipWs(_, _)
SkipWs(s, i) ==
  IF i <= Len(s) /\ s[i] \in {32, 9, 10, 13} THEN SkipWs(s, i + 1) ELSE i

ParseLiteral(s, i, lit, val) ==
  IF i + Len(lit) - 1 <= Len(s) /\ SubSeq(s, i, i + Len(lit) - 1) = lit
  THEN Parsed(val, i + Len(lit))
  ELSE ParseFail

RECURSIVE ParseDigits(_, _, _)
ParseDigits(s, i, acc) ==
  IF i <= Len(s) /\ s[i] \in 48..57
  THEN ParseDigits(s, i + 1, acc * 10 + (s[i] - 48))
  ELSE [n |-> acc, next |-> i]

ParseNumber(s, i) ==
  LET neg == s[i] = 45
      j == IF neg THEN i + 1 ELSE i
  IN IF j > Len(s) \/ s[j] \notin 48..57 THEN ParseFail
     ELSE IF s[j] = 48 THEN Parsed(JNum(0), j + 1)
     ELSE LET d == ParseDigits(s, j, 0)
          IN Parsed(JNum(IF neg THEN 0 - d.n ELSE d.n), d.next)

HexValue(c) ==
  IF c \in 48..57 THEN c - 48
  ELSE IF c \in 97..102 THEN c - 87
  ELSE IF c \in 65..70 THEN c - 55
  ELSE -1

Unescape(e) ==
  CASE e = 34 -> 34
    [] e = 92 -> 92
    [] e = 47 -> 47
    [] e = 98 -> 8
    [] e = 102 -> 12
    [] e = 110 -> 10
    [] e = 114 -> 13
    [] e = 116 -> 9
    [] OTHER -> -1

RECURSIVE ParseStringBody(_, _, _)
ParseStringBody(s, i, acc) ==
  IF i > Len(s) THEN ParseFail
  ELSE IF s[i] = 34 THEN Parsed(acc, i + 1)
  ELSE IF s[i] < 32 THEN ParseFail
  ELSE IF s[i] # 92 THEN ParseStringBody(s, i + 1, Append(acc, s[i]))
  ELSE IF i + 1 > Len(s) THEN ParseFail
  ELSE IF s[i + 1] = 117
       THEN IF i + 5 > Len(s) \/ \E k \in 2..5 : HexValue(s[i + k]) < 0
            THEN ParseFail
            ELSE ParseStringBody(s, i + 6,
                   Append(acc, HexValue(s[i + 2]) * 4096 + HexValue(s[i + 3]) * 256
                               + HexValue(s[i + 4]) * 16 + HexValue(s[i + 5])))
       ELSE IF Unescape(s[i + 1]) < 0 THEN ParseFail
       ELSE ParseStringBody(s, i + 2, Append(acc, Unescape(s[i + 1])))

RECURSIVE ParseValue(_, _)
RECURSIVE ParseElems(_, _, _)
RECURSIVE ParseMembers(_, _, _)
ParseValue(s, i0) ==
  LET i == SkipWs(s, i0)
  IN IF i > Len(s) THEN ParseFail
     ELSE CASE s[i] = 110 -> ParseLiteral(s, i, Txt.null, JNull)
            [] s[i] = 116 -> ParseLiteral(s, i, Txt.true, JBool(TRUE))
            [] s[i] = 102 -> ParseLiteral(s, i, Txt.false, JBool(FALSE))
            [] s[i] = 34 ->
                 LET r == ParseStringBody(s, i + 1, <<>>)
                 IN IF r.ok THEN Parsed(JStr(r.v), r.next) ELSE ParseFail
            [] s[i] = 91 ->
                 LET j == SkipWs(s, i + 1)
                 IN IF j <= Len(s) /\ s[j] = 93 THEN Parsed(JArr(<<>>), j + 1)
                    ELSE ParseElems(s, j, <<>>)
            [] s[i] = 123 ->
                 LET j == SkipWs(s, i + 1)
                 IN IF j <= Len(s) /\ s[j] = 125 THEN Parsed(JObj(<<>>), j + 1)
                    ELSE ParseMembers(s, j, <<>>)
            [] s[i] = 45 \/ s[i] \in 48..57 -> ParseNumber(s, i)
            [] OTHER -> ParseFail

ParseElems(s, i, acc) ==
  LET r == ParseValue(s, i)
  IN IF ~r.ok THEN ParseFail
     ELSE LET j == SkipWs(s, r.next)
          IN IF j > Len(s) THEN ParseFail
             ELSE IF s[j] = 44 THEN ParseElems(s, j + 1, Append(acc, r.v))
             ELSE IF s[j] = 93 THEN Parsed(JArr(Append(acc, r.v)), j + 1)
             ELSE ParseFail

ParseMembers(s, i0, acc) ==
  LET i == SkipWs(s, i0)
  IN IF i > Len(s) \/ s[i] # 34 THEN ParseFail
     ELSE LET k == ParseStringBody(s, i + 1, <<>>)
          IN IF ~k.ok THEN ParseFail
             ELSE LET c == SkipWs(s, k.next)
                  IN IF c > Len(s) \/ s[c] # 58 THEN ParseFail
                     ELSE LET r == ParseValue(s, c + 1)
                          IN IF ~r.ok THEN ParseFail
                             ELSE LET j == SkipWs(s, r.next)
                                      o == ObjSet(acc, k.v, r.v)
                                  IN IF j > Len(s) THEN ParseFail
                                     ELSE IF s[j] = 44 THEN ParseMembers(s, j + 1, o)
                                     ELSE IF s[j] = 125 THEN Parsed(JObj(o), j + 1)
                                     ELSE ParseFail

\* JSON.parse(text): the value, or a SyntaxError.
JsonParse(s) ==
  LET r == ParseValue(s, 1)
  IN IF r.ok /\ SkipWs(s, r.next) > Len(s) THEN [ok |-> TRUE, v |-> r.v] ELSE ParseFail

(***************************************************************************)
(* Buffer.from(json, 'utf8') and buf.toString('utf8') (token.ts:5, 10),    *)
(* for code points below U+10000 that are not surrogates.                  *)
(***************************************************************************)
Utf8Char(c) ==
  IF c < 128 THEN <<c>>
  ELSE IF c < 2048 THEN <<192 + (c \div 64), 128 + (c % 64)>>
  ELSE <<224 + (c \div 4096), 128 + ((c \div 64) % 64), 128 + (c % 64)>>

Utf8Encode(s) == Concat([i \in 1..Len(s) |-> Utf8Char(s[i])], 1, Len(s))

IsCont(b, i) == i <= Len(b) /\ b[i] \in 128..191

\* One decoding step at byte i: the code point and the bytes consumed.  An
\* ill-formed or cut sequence decodes to U+FFFD and decoding goes on.
Utf8Step(b, i) ==
  IF b[i] < 128 THEN [cp |-> b[i], len |-> 1]
  ELSE IF b[i] \in 194..223 /\ IsCont(b, i + 1)
       THEN [cp |-> (b[i] - 192) * 64 + (b[i + 1] - 128), len |-> 2]
  ELSE IF b[i] \in 224..239 /\ IsCont(b, i + 1)
          /\ (b[i] # 224 \/ b[i + 1] >= 160) /\ (b[i] # 237 \/ b[i + 1] < 160)
       THEN IF IsCont(b, i + 2)
            THEN [cp |-> (b[i] - 224) * 4096 + (b[i + 1] - 128) * 64 + (b[i + 2] - 128),
                  len |-> 3]
            ELSE [cp |-> 65533, len |-> 2]
  ELSE [cp |-> 65533, len |-> 1]

\* Byte i was consumed as a continuation byte by the lead byte before it (a
\* lead byte is never a continuation byte, so every lead byte starts a step).
Utf8Consumed(b, i) ==
  \/ i >= 2 /\ Utf8Step(b, i - 1).len >= 2
  \/ i >= 3 /\ Utf8Step(b, i - 2).len = 3

Utf8Decode(b) ==
  Concat([i \in 1..Len(b) |-> IF Utf8Consumed(b, i) THEN <<>> ELSE <<Utf8Step(b, i).cp>>],
         1, Len(b))

(***************************************************************************)
(* base64url without padding (token.ts:5, 10).  A token character is its   *)
(* index 0..63 in the base64url alphabet.                                  *)
(***************************************************************************)
ByteAt(b, j) == IF j <= Len(b) THEN b[j] ELSE 0

Base64urlEncode(b) ==
  [k \in 1..((4 * Len(b) + 2) \div 3) |->
     LET g == (k - 1) \div 4
         p == (k - 1) % 4
         b0 == ByteAt(b, 3 * g + 1)
         b1 == ByteAt(b, 3 * g + 2)
         b2 == ByteAt(b, 3 * g + 3)
     IN CASE p = 0 -> b0 \div 4
          [] p = 1 -> (b0 % 4) * 16 + (b1 \div 16)
          [] p = 2 -> (b1 % 16) * 4 + (b2 \div 64)
          [] p = 3 -> b2 % 64]

\* A trailing group of one character carries no whole byte and is dropped.
Base64urlDecode(d) ==
  [j \in 1..((3 * Len(d)) \div 4) |->
     LET g == (j - 1) \div 3
         p == (j - 1) % 3
         d0 == d[4 * g + 1]
         d1 == d[4 * g + 2]
         d2 == ByteAt(d, 4 * g + 3)
         d3 == ByteAt(d, 4 * g + 4)
     IN CASE p = 0 -> d0 * 4 + (d1 \div 16)
          [] p = 1 -> (d1 % 16) * 16 + (d2 \div 4)
          [] p = 2 -> (d2 % 4) * 64 + d3]

(***************************************************************************)
(* token.ts                                                                *)
(***************************************************************************)
encodeToken(obj) == Base64urlEncode(Utf8Encode(Stringify(obj)))

InvalidToken == [ok |-> FALSE, error |-> "Invalid token"]

decodeToken(token) ==
  LET json == Utf8Decode(Base64urlDecode(token))
      r == JsonParse(json)
  IN IF r.ok THEN [ok |-> TRUE, v |-> r.v] ELSE InvalidToken

(***************************************************************************)
(* The codec on its own: a caller encodes a halt record, the token may be  *)
(* cut short or made up by hand, and is then decoded.                      *)
(***************************************************************************)
MaxTokItems == 2
MaxCut == 3

TokAtoms ==
  { JNum(12), JBool(FALSE), JStr(Txt.quoted), JStr(Txt.backslash), JStr(Txt.accent),
    JStr(Txt.newline), JObj(<<Member(Txt.a, JNum(1))>>), JArr(<<JNum(-3), JNull>>) }

TokItemLists == UNION { [1..n -> TokAtoms] : n \in 0..MaxTokItems }

TokPipelines ==
  { NoValue,
    JArr(<<JObj(<<Member(Txt.name, JStr(Txt.pick)), Member(Txt.args, JObj(<<>>))>>)>>) }

\* The record Lobster.run and Lobster.resume hand to encodeToken; the
\* pipeline member is there only when a caller adds one.
HaltRecord(pipeline, stageIndex, resumeAtIndex, items, prompt) ==
  JObj(Defined(<<Member(Txt.protocolVersion, JNum(1)),
                 Member(Txt.v, JNum(1)),
                 Member(Txt.pipeline, pipeline),
                 Member(Txt.stageIndex, stageIndex),
                 Member(Txt.resumeAtIndex, resumeAtIndex),
                 Member(Txt.items, items),
                 Member(Txt.prompt, prompt)>>))

TokRecords ==
  { HaltRecord(p, JNum(si), JNum(ri), JArr(items), JStr(prompt)) :
      p \in TokPipelines, si \in {-1, 12}, ri \in {0, 13},
      items \in TokItemLists, prompt \in {Txt.first, Txt.quoted} }

\* Texts that are not halt records: not JSON, cut JSON, JSON of another
\* shape, a record without version or fields.
ForgedTexts ==
  { <<120>>, <<91, 49>>, Txt.null, <<55>>, <<123, 125>>,
    <<123, 34, 118, 34, 58, 49, 125>> }

TokEncode(d) ==
  /\ tkSrc = NoValue
  /\ tkToken = <<>>
  /\ tkOut = NoValue
  /\ tkSrc' = d
  /\ tkToken' = encodeToken(d)
  /\ tkOut' = NoValue
  /\ tkCut' = FALSE

TokTruncate(k) ==
  /\ tkSrc # NoValue
  /\ ~tkCut
  /\ k <= Len(tkToken)
  /\ tkToken' = SubSeq(tkToken, 1, Len(tkToken) - k)
  /\ tkCut' = TRUE
  /\ tkOut' = NoValue
  /\ UNCHANGED tkSrc

TokForge(text) ==
  /\ tkSrc = NoValue
  /\ tkToken = <<>>
  /\ tkOut = NoValue
  /\ tkSrc' = NoValue
  /\ tkToken' = Base64urlEncode(Utf8Encode(text))
  /\ tkCut' = TRUE
  /\ tkOut' = NoValue

TokDecode ==
  /\ tkOut = NoValue
  /\ tkOut' = decodeToken(tkToken)
  /\ UNCHANGED <<tkSrc, tkToken, tkCut>>

InitToken ==
  /\ tkSrc = NoValue
  /\ tkToken = <<>>
  /\ tkOut = NoValue
  /\ tkCut = FALSE

(***************************************************************************)
(* Stages.  A pipeline is built from a transform (a plain function stage), *)
(* the approve gate with and without preview, a stage of the caller's own  *)
(* that halts and hands its input on, and a stage that throws.             *)
(***************************************************************************)
MaxStages == 4
MaxCalls == 3
MaxItemValue == 2

Plain(kind) == [kind |-> kind, prompt |-> <<>>, preview |-> TRUE, emit |-> FALSE]
Gate(prompt, preview) ==
  [kind |-> "approve", prompt |-> prompt, preview |-> preview, emit |-> FALSE]
\* approve --prompt ... [--emit] of the CLI
GateArgs(prompt, emit) ==
  [kind |-> "approve", prompt |-> prompt, preview |-> TRUE, emit |-> emit]

StageSet ==
  { Plain("inc"), Plain("haltraw"), Plain("fail"),
    Gate(Txt.first, TRUE), Gate(Txt.second, FALSE) }

Inputs == { <<>>, <<JNum(1), JNum(2)>> }

\* Where the engine runs: the SDK, or the CLI in tool mode or in human mode
\* with or without a terminal and with the operator's answer.
SdkEnv == [engine |-> "sdk", mode |-> "sdk", tty |-> FALSE, answer |-> Txt.n]
CliEnvs ==
  { [engine |-> "cli", mode |-> "tool", tty |-> FALSE, answer |-> Txt.n],
    [engine |-> "cli", mode |-> "human", tty |-> FALSE, answer |-> Txt.n],
    [engine |-> "cli", mode |-> "human", tty |-> TRUE, answer |-> Txt.y],
    [engine |-> "cli", mode |-> "human", tty |-> TRUE, answer |-> Txt.n] }

\* A stage whose error is lost: it returns nothing instead.
Swallowed(error) == [threw |-> FALSE, halt |-> FALSE, output |-> <<>>, error |-> ""]

Returned(halt, output) == [threw |-> FALSE, halt |-> halt, output |-> output, error |-> ""]
Threw(error) == [threw |-> TRUE, halt |-> FALSE, output |-> <<>>, error |-> error]

\* items => items.map(n => (n + 1) % (MaxItemValue + 1))
Inc(items) ==
  [i \in 1..Len(items) |->
     IF items[i].t = "num" THEN JNum((items[i].n + 1) % (MaxItemValue + 1)) ELSE items[i]]

\* sdk/primitives/approve.ts: the gate always halts with one approval request.
approve(stage, items) ==
  Returned(TRUE,
    << JObj(<<Member(Txt.type, JStr(Txt.approval_request)),
              Member(Txt.prompt, JStr(stage.prompt)),
              Member(Txt.items, JArr(IF stage.preview THEN items ELSE <<>>)),
              Member(Txt.itemCount, JNum(Len(items)))>>) >>)

\* String.prototype.trim over the white space an answer can carry.
IsSpace(c) == c \in {9, 10, 11, 12, 13, 32}
RECURSIVE TrimStart(_)
TrimStart(text) ==
  IF text # <<>> /\ IsSpace(Head(text)) THEN TrimStart(Tail(text)) ELSE text
RECURSIVE TrimEnd(_)
TrimEnd(text) ==
  IF text # <<>> /\ IsSpace(text[Len(text)])
  THEN TrimEnd(SubSeq(text, 1, Len(text) - 1)) ELSE text
Trim(text) == TrimEnd(TrimStart(text))

\* The i flag of the pattern: letters compare without case.
LowerCase(text) ==
  [k \in 1..Len(text) |-> IF text[k] \in 65..90 THEN text[k] + 32 ELSE text[k]]

\* An operator who is taken to agree whatever the answer.
AnyAnswer(answer) == TRUE

\* /^y(es)?$/i.test(String(answer).trim())
Affirmative(answer) == LowerCase(Trim(answer)) \in {Txt.y, Txt.yes}

\* commands/stdlib/approve.ts: emits the request in tool mode or without a
\* terminal; otherwise asks, and passes the items on or throws.
approveCommand(stage, items, env) ==
  LET emit == stage.emit \/ env.mode = "tool" \/ ~env.tty
  IN IF emit
     THEN Returned(TRUE,
            << JObj(<<Member(Txt.type, JStr(Txt.approval_request)),
                      Member(Txt.prompt, JStr(stage.prompt)),
                      Member(Txt.items, JArr(items))>>) >>)
     ELSE IF Affirmative(env.answer) THEN Returned(FALSE, items)
     ELSE Threw("Not approved")

\* What one stage does with its input.
RunStage(stage, items, env) ==
  CASE stage.kind = "inc" -> Returned(FALSE, Inc(items))
    [] stage.kind = "haltraw" -> Returned(TRUE, items)
    [] stage.kind = "fail" -> Threw("stage failed")
    [] stage.kind = "approve" ->
         IF env.engine = "sdk" THEN approve(stage, items)
         ELSE approveCommand(stage, items, env)

(***************************************************************************)
(* The engines: runPipeline (runtime.ts) and runPipelineInternal           *)
(* (sdk/runtime.ts).  One StageStep is one iteration of the stage loop;    *)
(* Return is the final collection and the return to the caller.            *)
(***************************************************************************)
\* toAsyncIterable(input), materialised.
toAsyncIterable(input) ==
  CASE input.t \in {"null", "undefined"} -> <<>>
    [] input.t = "arr" -> input.a
    [] input.t = "str" -> [i \in 1..Len(input.s) |-> JStr(<<input.s[i]>>)]
    [] OTHER -> <<input>>

HaltedAt(i, stage) == [t |-> "at", index |-> i, stage |-> stage]

\* A variant of the loop without the break.
HaltNeverBreaks(r) == FALSE

\* if (result?.halt) { ...; break }
HaltBreaks(r) == r.halt

\* A variant of the loop that loses the output of a stage.
OutputDropped(r) == <<>>

\* A variant of the loop that hands the output on last item first.
OutputReversed(r) == [k \in 1..Len(r.output) |-> r.output[Len(r.output) + 1 - k]]

\* stream = result?.output ?? emptyStream()
OutputOf(r) == r.output

NoCall ==
  [op |-> "none", env |-> SdkEnv, offset |-> 0, base |-> 0, input |-> <<>>,
   token |-> <<>>, approved |-> FALSE]
NoRet == [state |-> "none"]
NoResult == [status |-> "none"]

EngineReturned(items, h, at) ==
  [state |-> "returned", items |-> items, halted |-> h, haltedAt |-> at]
EngineThrew(error) == [state |-> "threw", error |-> error]

\* The entry of either engine: stream, halted and haltedAt are initialised
\* and the loop starts at index 0.
EngineStart(list, input) ==
  /\ pc' = "loop"
  /\ rstages' = list
  /\ idx' = 0
  /\ stream' = input
  /\ halted' = FALSE
  /\ haltedAt' = JNull
  /\ executed' = <<>>
  /\ ret' = NoRet
  /\ result' = NoResult

(***************************************************************************)
(* sdk/Lobster.ts                                                          *)
(***************************************************************************)
OkResult(items) ==
  [ok |-> TRUE, status |-> "ok", output |-> items, requiresApproval |-> JNull]
CancelledResult ==
  [ok |-> TRUE, status |-> "cancelled", output |-> <<>>, requiresApproval |-> JNull]
ErrorResult(message) ==
  [ok |-> FALSE, status |-> "error", output |-> <<>>, requiresApproval |-> JNull,
   error |-> [type |-> "runtime_error", message |-> message]]
\* A halt that hands the approval request out as output as well.
NeedsApprovalWithOutput(approval, resumeToken) ==
  [ok |-> TRUE, status |-> "needs_approval", output |-> <<approval>>,
   requiresApproval |-> [prompt |-> Get(approval, Txt.prompt),
                         items |-> Get(approval, Txt.items),
                         resumeToken |-> resumeToken]]

NeedsApproval(approval, resumeToken) ==
  [ok |-> TRUE, status |-> "needs_approval", output |-> <<>>,
   requiresApproval |-> [prompt |-> Get(approval, Txt.prompt),
                         items |-> Get(approval, Txt.items),
                         resumeToken |-> resumeToken]]
\* The promise rejects: the error leaves run / resume / runPipeline.
Rejected(message) == [ok |-> FALSE, status |-> "rejected", message |-> message]

\* result.halted && result.items.length === 1
\*   && result.items[0]?.type === 'approval_request'
IsApprovalHalt(r) ==
  /\ r.halted
  /\ Len(r.items) = 1
  /\ Get(r.items[1], Txt.type) = JStr(Txt.approval_request)

\* A variant that keeps the index relative to the resumed slice.
RelativeIndex(resumeIndex, at) == IF at.t = "null" THEN 0 ELSE at.index

\* resumeIndex + (result.haltedAt?.index ?? 0)
RebasedIndex(resumeIndex, at) ==
  resumeIndex + (IF at.t = "null" THEN 0 ELSE at.index)

\* A variant of the record of run whose resumeAtIndex is the gate itself.
RunTokenRecordAtGate(r) ==
  LET si == IF r.haltedAt.t = "null" THEN -1 ELSE r.haltedAt.index
  IN HaltRecord(NoValue, JNum(si), JNum(si),
                Get(r.items[1], Txt.items), Get(r.items[1], Txt.prompt))

\* The record run encodes (Lobster.ts run) and the one resume encodes.
RunTokenRecord(r) ==
  LET si == IF r.haltedAt.t = "null" THEN -1 ELSE r.haltedAt.index
  IN HaltRecord(NoValue, JNum(si), JNum(si + 1),
                Get(r.items[1], Txt.items), Get(r.items[1], Txt.prompt))

ResumeTokenRecord(r, resumeIndex) ==
  HaltRecord(NoValue, JNum(RebasedIndex(resumeIndex, r.haltedAt)),
             JNum(RebasedIndex(resumeIndex, r.haltedAt) + 1),
             Get(r.items[1], Txt.items), Get(r.items[1], Txt.prompt))

\* What run / resume make of the engine's result.
LobsterResult(r, c) ==
  IF IsApprovalHalt(r)
  THEN NeedsApproval(r.items[1],
         encodeToken(IF c.op = "run" THEN RunTokenRecord(r)
                     ELSE ResumeTokenRecord(r, c.base)))
  ELSE OkResult(r.items)

\* x ?? d
Nullish(x) == x.t \in {"null", "undefined"}

\* this.#stages.slice(start): the slice and the position it starts at.
Slice(list, start) ==
  LET from == IF start < 0 THEN (IF Len(list) + start < 0 THEN 0 ELSE Len(list) + start)
              ELSE (IF start > Len(list) THEN Len(list) ELSE start)
  IN [list |-> SubSeq(list, from + 1, Len(list)), offset |-> from]

\* A variant of resume that decodes the token before it looks at approved.
DecodeBeforeApproval(token) ==
  IF decodeToken(token).ok THEN CancelledResult ELSE Rejected("Invalid token")

\* resume(token, {approved: false}): returned before the token is looked at.
NotApproved(token) == CancelledResult

\* Tokens a caller can make up without a run: the text {} and the text x.
ForgedTokens ==
  { Base64urlEncode(Utf8Encode(<<123, 125>>)), Base64urlEncode(Utf8Encode(<<120>>)) }

NewCall(op, env, offset, base, input, token, approved) ==
  [op |-> op, env |-> env, offset |-> offset, base |-> base, input |-> input,
   token |-> token, approved |-> approved]

\* An invocation that ends before the engine is entered.
EndsAtOnce(res) ==
  /\ pc' = "ready"
  /\ rstages' = <<>>
  /\ idx' = 0
  /\ stream' = <<>>
  /\ halted' = FALSE
  /\ haltedAt' = JNull
  /\ executed' = <<>>
  /\ ret' = NoRet
  /\ result' = res

\* Lobster.pipe(stage)
Pipe(stage) ==
  /\ pc = "ready"
  /\ calls = 0
  /\ Len(stages) < MaxStages
  /\ stages' = Append(stages, stage)
  /\ UNCHANGED <<pc, call, rstages, idx, stream, halted, haltedAt, executed, gateInput,
                 ret, result, prevCall, prevResult, issued, execCount, chain, calls>>

\* Lobster.run(initialInput), up to the entry of the stage loop.
Run(input) ==
  /\ pc = "ready"
  /\ calls = 0
  /\ call' = NewCall("run", SdkEnv, 0, 0, input, <<>>, TRUE)
  /\ EngineStart(stages, toAsyncIterable(JArr(input)))
  /\ prevCall' = call
  /\ prevResult' = result
  /\ execCount' = [i \in 1..Len(stages) |-> 0]
  /\ chain' = TRUE
  /\ calls' = calls + 1
  /\ UNCHANGED <<stages, gateInput, issued>>

\* runPipeline of the CLI runtime over the same stage list, up to the entry
\* of the stage loop.
RunCli(input, env) ==
  /\ pc = "ready"
  /\ calls = 0
  /\ call' = NewCall("cli", env, 0, 0, input, <<>>, TRUE)
  /\ EngineStart(stages, input)
  /\ prevCall' = call
  /\ prevResult' = result
  /\ execCount' = [i \in 1..Len(stages) |-> 0]
  /\ chain' = FALSE
  /\ calls' = calls + 1
  /\ UNCHANGED <<stages, gateInput, issued>>

\* Lobster.resume(token, {approved}), up to the entry of the stage loop.  The
\* tokens of the model carry a number or nothing as resumeAtIndex.
Resume(token, approved) ==
  /\ pc = "ready"
  /\ call.op \in {"run", "resume"}
  /\ calls < MaxCalls
  /\ prevCall' = call
  /\ prevResult' = result
  /\ calls' = calls + 1
  /\ UNCHANGED <<stages, gateInput, issued, execCount>>
  /\ IF ~approved
     THEN /\ call' = NewCall("resume", SdkEnv, 0, 0, <<>>, token, FALSE)
          /\ EndsAtOnce(NotApproved(token))
          /\ chain' = FALSE
     ELSE LET payload == decodeToken(token)
          IN IF ~payload.ok
             THEN /\ call' = NewCall("resume", SdkEnv, 0, 0, <<>>, token, TRUE)
                  /\ EndsAtOnce(Rejected(payload.error))
                  /\ chain' = FALSE
             ELSE IF Nullish(payload.v)
             THEN /\ call' = NewCall("resume", SdkEnv, 0, 0, <<>>, token, TRUE)
                  /\ EndsAtOnce(Rejected("TypeError"))
                  /\ chain' = FALSE
             ELSE LET at == Get(payload.v, Txt.resumeAtIndex)
                      its == Get(payload.v, Txt.items)
                      resumeIndex == IF Nullish(at) THEN 0 ELSE at.n
                      resumeItems == IF Nullish(its) THEN JArr(<<>>) ELSE its
                      remainingStages == Slice(stages, resumeIndex)
                  IN /\ call' = NewCall("resume", SdkEnv, remainingStages.offset,
                                        resumeIndex, toAsyncIterable(resumeItems),
                                        token, TRUE)
                     /\ EngineStart(remainingStages.list, toAsyncIterable(resumeItems))
                     /\ chain' = (/\ chain
                                  /\ result.status = "needs_approval"
                                  /\ result.requiresApproval.resumeToken = token)

\* One iteration of the stage loop: the stage runs on the current stream.
StageStep ==
  /\ pc = "loop"
  /\ idx < Len(rstages)
  /\ LET r == RunStage(rstages[idx + 1], stream, call.env)
     IN /\ executed' = Append(executed, call.offset + idx)
        /\ execCount' = [execCount EXCEPT ![call.offset + idx + 1] = @ + 1]
        /\ IF r.threw
           THEN /\ ret' = EngineThrew(r.error)
                /\ result' = IF call.op = "cli" THEN Rejected(r.error)
                             ELSE ErrorResult(r.error)
                /\ pc' = "ready"
                /\ UNCHANGED <<idx, stream, halted, haltedAt, gateInput>>
           ELSE /\ stream' = OutputOf(r)
                /\ halted' = (halted \/ r.halt)
                /\ haltedAt' = IF r.halt THEN HaltedAt(idx, rstages[idx + 1]) ELSE haltedAt
                /\ gateInput' = IF r.halt THEN stream ELSE gateInput
                /\ pc' = IF HaltBreaks(r) THEN "exit" ELSE "loop"
                /\ idx' = IF HaltBreaks(r) THEN idx ELSE idx + 1
                /\ UNCHANGED <<ret, result>>
  /\ UNCHANGED <<stages, call, rstages, prevCall, prevResult, issued, chain, calls>>

\* The loop is over: the stream is collected, the engine returns, and run /
\* resume build their result (the CLI caller gets the engine's result).
Return ==
  /\ pc = "exit" \/ (pc = "loop" /\ idx >= Len(rstages))
  /\ LET r == EngineReturned(stream, halted, haltedAt)
         res == IF call.op = "cli" THEN [status |-> "returned", value |-> r]
                ELSE LobsterResult(r, call)
     IN /\ ret' = r
        /\ result' = res
        /\ issued' = IF res.status = "needs_approval"
                     THEN issued \cup {res.requiresApproval.resumeToken}
                     ELSE issued
  /\ pc' = "ready"
  /\ UNCHANGED <<stages, call, rstages, idx, stream, halted, haltedAt, executed,
                 gateInput, prevCall, prevResult, execCount, chain, calls>>

\* The workflow object after construction.
InitEngine ==
  /\ stages = <<>>
  /\ pc = "ready"
  /\ call = NoCall
  /\ rstages = <<>>
  /\ idx = 0
  /\ stream = <<>>
  /\ halted = FALSE
  /\ haltedAt = JNull
  /\ executed = <<>>
  /\ gateInput = <<>>
  /\ ret = NoRet
  /\ result = NoResult
  /\ prevCall = NoCall
  /\ prevResult = NoResult
  /\ issued = {}
  /\ execCount = <<>>
  /\ chain = FALSE
  /\ calls = 0

(***************************************************************************)
(* The cache key of llm_task.invoke (llm_task_invoke.ts: normalizeArtifact, *)
(* hashArtifact, computeCacheKey).  The key is the sha256 of the stable    *)
(* text of a payload; the stable text is the JSON text of the value with    *)
(* the keys of every object sorted.                                        *)
(***************************************************************************)
\* a < b in the order of Array.prototype.sort on strings (code units).
RECURSIVE TextLess(_, _, _)
TextLess(a, b, i) ==
  IF i > Len(b) THEN FALSE
  ELSE IF i > Len(a) THEN TRUE
  ELSE IF a[i] # b[i] THEN a[i] < b[i]
  ELSE TextLess(a, b, i + 1)

\* The members of an object in the order of their keys.
SortedMembers(o) ==
  LET rank(i) == 1 + Cardinality({j \in 1..Len(o) : TextLess(o[j].k, o[i].k, 1)})
  IN [r \in 1..Len(o) |-> o[CHOOSE i \in 1..Len(o) : rank(i) = r]]

RECURSIVE SortKeys(_)
SortKeys(value) ==
  IF value.t = "obj"
  THEN LET sorted == SortedMembers(value.o)
       IN JObj([r \in 1..Len(sorted) |-> Member(sorted[r].k, SortKeys(sorted[r].v))])
  ELSE IF value.t = "arr"
  THEN JArr([i \in 1..Len(value.a) |-> SortKeys(value.a[i])])
  ELSE value

\* JSON.stringify, which keeps the keys in insertion order.
plainStringify(value) == Stringify(value)

\* state/store.js stableStringify.
stableStringify(value) == Stringify(SortKeys(value))

\* createHash('sha256').update(text).digest('hex'): the digest is taken as
\* the text itself, so that no two texts share a digest.
sha256(text) == text

normalizeArtifact(raw) ==
  IF raw.t = "obj" THEN raw
  ELSE IF raw.t = "str"
  THEN JObj(<<Member(Txt.kind, JStr(Txt.text)), Member(Txt.text, raw)>>)
  ELSE IF raw.t = "num"
  THEN JObj(<<Member(Txt.kind, JStr(Txt.text)), Member(Txt.text, JStr(NumChars(raw.n)))>>)
  ELSE IF raw.t = "bool"
  THEN JObj(<<Member(Txt.kind, JStr(Txt.text)),
              Member(Txt.text, JStr(IF raw.b THEN Txt.true ELSE Txt.false))>>)
  ELSE JObj(<<Member(Txt.kind, JStr(Txt.json)), Member(Txt.data, raw)>>)

hashArtifact(artifact) == sha256(stableStringify(artifact))

\* const payload = { prompt, model: model || 'clawd-default', schemaVersion,
\*                   artifactHashes, outputSchema: outputSchema ?? null }
cachePayload(prompt, model, schemaVersion, artifactHashes, outputSchema) ==
  [prompt |-> prompt,
   model |-> IF model = <<>> THEN Txt.clawd_default ELSE model,
   schemaVersion |-> schemaVersion,
   artifactHashes |-> artifactHashes,
   outputSchema |-> IF outputSchema = NoValue THEN JNull ELSE outputSchema]

\* The payload as a JSON value, its members in the order of the literal.
PayloadJson(payload) ==
  JObj(<<Member(Txt.prompt, JStr(payload.prompt)),
         Member(Txt.model, JStr(payload.model)),
         Member(Txt.schemaVersion, JStr(payload.schemaVersion)),
         Member(Txt.artifactHashes,
                JArr([i \in 1..Len(payload.artifactHashes) |->
                        JStr(payload.artifactHashes[i])])),
         Member(Txt.outputSchema, payload.outputSchema)>>)

computeCacheKey(prompt, model, schemaVersion, artifactHashes, outputSchema) ==
  sha256(stableStringify(PayloadJson(
    cachePayload(prompt, model, schemaVersion, artifactHashes, outputSchema))))

(***************************************************************************)
(* llm_task.invoke (commands/stdlib/llm_task_invoke.ts).  Invoke is the    *)
(* handler up to the first transport call (configuration, cache key, the   *)
(* two lookups); Attempt is one iteration of the retry loop, with the      *)
(* response the transport gives.                                           *)
(***************************************************************************)
DEFAULT_MAX_VALIDATION_RETRIES == 1
STATE_VERSION == 1
MaxInvocations == 3
MaxOptions == 1

NoKey == ""
StateKeys == {"k1"}
\* What the transport can give to one request: a result that satisfies the
\* output schema, one that does not, a non-success HTTP status, a body that
\* is not JSON, a body that is not a response envelope, an envelope whose ok
\* is not true.  A result fails the schema for want of the required property
\* (invalid) or for not being an object (not_object).
Responses ==
  {"valid", "invalid", "not_object", "http_error", "not_json", "bad_envelope", "not_ok"}

\* The output schema of the calls that give one:
\* {"type":"object","required":["decision"]}.
DecisionSchema ==
  JObj(<<Member(Txt.type, JStr(Txt.object)),
         Member(Txt.required, JArr(<<JStr(Txt.decision)>>))>>)

\* The process environment: LLM_TASK_URL, CLAWD_URL, LLM_TASK_MODEL.
Envs ==
  { [url |-> TRUE, clawd |-> FALSE, model |-> Txt.m1],
    [url |-> FALSE, clawd |-> TRUE, model |-> <<>>],
    [url |-> TRUE, clawd |-> TRUE, model |-> Txt.m1],
    [url |-> TRUE, clawd |-> TRUE, model |-> <<>>],
    [url |-> FALSE, clawd |-> FALSE, model |-> <<>>] }

\* The arguments of a call; a request sets at most MaxOptions of
\* --output-schema, --refresh and --disable-cache, and gives
\* --max-validation-retries only with a schema.
Requests ==
  { r \in [prompt : {Txt.p1, Txt.p2}, outputSchema : {NoValue, DecisionSchema},
           retries : {NoValue, JNum(0)}, stateKey : {NoKey} \cup StateKeys,
           refresh : BOOLEAN, disableCache : BOOLEAN] :
      /\ (r.outputSchema = NoValue => r.retries = NoValue)
      /\ Cardinality({o \in {"schema", "refresh", "disable"} :
                        \/ o = "schema" /\ r.outputSchema # NoValue
                        \/ o = "refresh" /\ r.refresh
                        \/ o = "disable" /\ r.disableCache}) <= MaxOptions }

\* A selection that prefers the router.
RouterFirst(e) == IF e.clawd THEN "clawd" ELSE "direct"

\* const transport = baseUrl ? 'direct' : clawdUrl ? 'clawd' : 'direct'
TransportOf(e) == IF e.url THEN "direct" ELSE IF e.clawd THEN "clawd" ELSE "direct"

\* userOutputSchema ? Math.max(0, finite(raw) ? raw : DEFAULT) : 0
MaxValidationRetries(args) ==
  IF args.outputSchema # NoValue
  THEN (IF args.retries.t = "num"
        THEN (IF args.retries.n < 0 THEN 0 ELSE args.retries.n)
        ELSE DEFAULT_MAX_VALIDATION_RETRIES)
  ELSE 0

\* A key that leaves the output schema out.
CacheKeyWithoutSchema(args, e) == cachePayload(args.prompt, e.model, Txt.v1, <<>>, NoValue)

\* The cache key of a call with no artifacts and the default schema version.
\* The stores of the invocations are keyed by the payload computeCacheKey
\* hashes, which stands for its digest.
CacheKeyOf(args, e) == cachePayload(args.prompt, e.model, Txt.v1, <<>>, args.outputSchema)

CacheKeys == { CacheKeyOf(r, e) : r \in Requests, e \in Envs }

\* state/store.js: a keyed store of JSON records, read whole and replaced
\* whole.
readStateJson(store, key) == store[key]
writeStateJson(store, key, value) == [store EXCEPT ![key] = value]

\* A cache that never has the entry.
CacheMiss(store, key) == NoValue

\* readCacheEntry / writeCacheEntry: one file per cache key.
readCacheEntry(store, key) == store[key]
writeCacheEntry(store, key, items) ==
  [store EXCEPT ![key] = [items |-> items, cacheKey |-> key]]

\* A lookup that reuses the record whatever its cache key.
pickAnyState(stored, cacheKey) ==
  IF stored = NoValue THEN NoValue ELSE [items |-> stored.items]

pickReusableState(stored, cacheKey) ==
  IF stored = NoValue THEN NoValue
  ELSE IF stored.type # "llm_task.invoke" THEN NoValue
  ELSE IF stored.cacheKey # cacheKey THEN NoValue
  ELSE [items |-> stored.items]

\* A persistOutputs that writes nothing.
persistNothing(store, stateKey, cacheKey, items) == store

\* persistOutputs: nothing without a state key.
persistOutputs(store, stateKey, cacheKey, items) ==
  IF stateKey = NoKey THEN store
  ELSE writeStateJson(store, stateKey,
         [type |-> "llm_task.invoke", version |-> STATE_VERSION,
          cacheKey |-> cacheKey, items |-> items])

normalizeResult(response, runId, cacheKey, source, attempt) ==
  << [kind |-> "llm_task.invoke", runId |-> runId, cacheKey |-> cacheKey,
      data |-> response, source |-> source,
      cached |-> (source # "remote" /\ source # "clawd"),
      attemptCount |-> attempt] >>

\* A lookup that hands the stored items out as they were persisted.
ServedAsStored(items, source) == items

\* items.map((item) => ({ ...item, source, cached: true }))
Served(items, source) ==
  [i \in 1..Len(items) |-> [items[i] EXCEPT !.source = source, !.cached = TRUE]]

\* A transport that never fails.
NoTransportError(response) == ""

\* The error the attempt throws before it looks at the result, "" for none:
\* invokeRemoteDirect / invokeRemoteViaClawd throw on !res.ok and on a body
\* that is not JSON (caught and rethrown as request failed), then the
\* envelope is validated and its ok is tested.
TransportError(response) ==
  IF response \in {"http_error", "not_json"} THEN "request failed"
  ELSE IF response = "bad_envelope" THEN "received invalid response envelope"
  ELSE IF response = "not_ok" THEN "remote error"
  ELSE ""

\* A validator that accepts every result.
AcceptsAll(response) == TRUE

\* validator(structured): the result satisfies the output schema.
Validates(response) == response = "valid"

\* collectAjvErrors(validator.errors) for the result of a response.
collectAjvErrors(response) ==
  IF response = "invalid" THEN <<"/ must have required property 'decision'">>
  ELSE IF response = "not_object" THEN <<"/ must be object">>
  ELSE <<>>

\* A call that never carries a retry context.
NoRetryContext(attempt, lastValidationErrors) == NoValue

\* if (attempt > 1) payload.retryContext = { attempt, ...(errors.length ?
\* { validationErrors } : null) } else delete payload.retryContext
RetryContext(attempt, lastValidationErrors) ==
  IF attempt > 1
  THEN (IF Len(lastValidationErrors) > 0
        THEN [attempt |-> attempt, validationErrors |-> lastValidationErrors]
        ELSE [attempt |-> attempt])
  ELSE NoValue

\* if (attempt > maxValidationRetries + 1) throw
Exhausted(attempt, maxValidationRetries) == attempt > maxValidationRetries + 1

IdleLlm == [phase |-> "idle"]

Entered(args, e) ==
  [phase |-> "loop", args |-> args, transport |-> TransportOf(e),
   cacheKey |-> CacheKeyOf(args, e),
   maxValidationRetries |-> MaxValidationRetries(args),
   validator |-> (args.outputSchema # NoValue),
   attempt |-> 0, calls |-> 0, responses |-> <<>>, retryContext |-> NoValue,
   lastValidationErrors |-> <<>>, outcome |-> NoValue,
   lookups |-> {}, via |-> <<>>]

Succeeded(inv, items) ==
  [inv EXCEPT !.phase = "done", !.outcome = [status |-> "ok", items |-> items]]
Failed(inv, error) ==
  [inv EXCEPT !.phase = "done", !.outcome = [status |-> "error", error |-> error]]

\* Flags that are read as never set.
FlagUnset(args) == FALSE

\* const disableCache = Boolean(args['disable-cache'] ?? false)
\* const forceRefresh = Boolean(args.refresh ?? false)
disableCache(args) == args.disableCache
forceRefresh(args) == args.refresh

\* What the history keeps of the invocation before the current one: its
\* arguments and its outcome when it succeeded, that it failed otherwise.
Finished(inv) ==
  IF inv.phase = "idle" THEN inv
  ELSE IF inv.outcome.status = "ok"
  THEN [phase |-> inv.phase, args |-> inv.args, outcome |-> inv.outcome]
  ELSE [phase |-> inv.phase, outcome |-> [status |-> "error"]]

\* What the history keeps of an invocation that succeeded.
Logged(inv) ==
  IF inv.phase = "done" /\ inv.outcome.status = "ok"
  THEN {[cacheKey |-> inv.cacheKey, disableCache |-> inv.args.disableCache,
         source |-> inv.outcome.items[1].source]}
  ELSE {}

Invoke(args) ==
  /\ llm.phase # "loop"
  /\ clock < MaxInvocations
  /\ clock' = clock + 1
  /\ prev' = Finished(llm)
  /\ log' = log \cup Logged(llm)
  /\ runStateBefore' = runState
  /\ cacheBefore' = cache
  /\ UNCHANGED <<procEnv, runState, cache>>
  /\ LET inv == Entered(args, procEnv)
         stored == IF args.stateKey # NoKey /\ ~forceRefresh(args)
                   THEN readStateJson(runState, args.stateKey) ELSE NoValue
         reused == pickReusableState(stored, inv.cacheKey)
         hit == IF ~disableCache(args) /\ ~forceRefresh(args)
                THEN readCacheEntry(cache, inv.cacheKey) ELSE NoValue
         readState == IF args.stateKey # NoKey /\ ~forceRefresh(args)
                      THEN {"run_state"} ELSE {}
         readCache == IF ~disableCache(args) /\ ~forceRefresh(args)
                      THEN {"cache"} ELSE {}
     IN llm' =
          IF ~procEnv.url /\ ~procEnv.clawd THEN Failed(inv, "requires either url or CLAWD_URL")
          ELSE IF procEnv.model = <<>> /\ inv.transport = "direct"
          THEN Failed(inv, "requires --model in direct mode")
          ELSE IF reused # NoValue
          THEN Succeeded([inv EXCEPT !.lookups = readState],
                         Served(reused.items, "run_state"))
          ELSE IF hit # NoValue
          THEN Succeeded([inv EXCEPT !.lookups = readState \cup readCache],
                         Served(hit.items, "cache"))
          ELSE [inv EXCEPT !.lookups = readState \cup readCache]

Attempt(response) ==
  /\ llm.phase = "loop"
  /\ UNCHANGED <<procEnv, prev, log, runStateBefore, cacheBefore, clock>>
  /\ LET attempt == llm.attempt + 1
         sent == [llm EXCEPT !.attempt = attempt, !.calls = @ + 1,
                             !.responses = Append(@, response),
                             !.via = Append(@, llm.transport),
                             !.retryContext =
                                RetryContext(attempt, llm.lastValidationErrors)]
         normalized == normalizeResult(response, <<clock, attempt>>, llm.cacheKey,
                                       IF llm.transport = "direct" THEN "remote"
                                       ELSE "clawd", attempt)
     IN IF TransportError(response) # ""
        THEN /\ llm' = Failed(sent, TransportError(response))
             /\ UNCHANGED <<runState, cache>>
        ELSE IF ~llm.validator \/ Validates(response)
        THEN /\ runState' = persistOutputs(runState, llm.args.stateKey, llm.cacheKey,
                                           normalized)
             /\ cache' = IF ~disableCache(llm.args)
                         THEN writeCacheEntry(cache, llm.cacheKey, normalized)
                         ELSE cache
             /\ llm' = Succeeded(sent, normalized)
        ELSE /\ UNCHANGED <<runState, cache>>
             /\ llm' = IF Exhausted(attempt, llm.maxValidationRetries)
                       THEN Failed([sent EXCEPT !.lastValidationErrors =
                                                  collectAjvErrors(response)],
                                   "output failed schema validation")
                       ELSE [sent EXCEPT !.lastValidationErrors =
                                           collectAjvErrors(response)]

\* Empty stores and no invocation yet.
LlmIdle ==
  /\ runState = [k \in StateKeys |-> NoValue]
  /\ cache = [k \in CacheKeys |-> NoValue]
  /\ llm = IdleLlm
  /\ prev = IdleLlm
  /\ log = {}
  /\ runStateBefore = runState
  /\ cacheBefore = cache
  /\ clock = 0

(***************************************************************************)
(* The derivation of the cache key in run (llm_task_invoke.ts:244-250),    *)
(* for two calls side by side.  A call gives a prompt, a model (empty when *)
(* omitted, which the Clawdbot transport allows), a schema version, its    *)
(* artifacts, an output schema or none, and a metadata object.             *)
(***************************************************************************)
TextArtifact == JObj(<<Member(Txt.kind, JStr(Txt.text)), Member(Txt.text, JStr(Txt.a))>>)
TextArtifactReordered ==
  JObj(<<Member(Txt.text, JStr(Txt.a)), Member(Txt.kind, JStr(Txt.text))>>)
StringArtifact == JStr(Txt.b)

ObjectSchema ==
  JObj(<<Member(Txt.type, JStr(Txt.object)),
         Member(Txt.properties,
                JObj(<<Member(Txt.a, JObj(<<>>)), Member(Txt.v, JObj(<<>>))>>))>>)
ObjectSchemaReordered ==
  JObj(<<Member(Txt.properties,
                JObj(<<Member(Txt.v, JObj(<<>>)), Member(Txt.a, JObj(<<>>))>>)),
         Member(Txt.type, JStr(Txt.object))>>)

Metadata == JObj(<<Member(Txt.name, JStr(Txt.a)), Member(Txt.args, JNum(1))>>)
MetadataReordered == JObj(<<Member(Txt.args, JNum(1)), Member(Txt.name, JStr(Txt.a))>>)

KeyCalls ==
  [prompt : {Txt.p1, Txt.p2},
   model : {<<>>, Txt.m1, Txt.clawd_default},
   schemaVersion : {Txt.v1, Txt.v2},
   artifacts : {<<TextArtifact, StringArtifact>>,
                <<TextArtifactReordered, StringArtifact>>,
                <<StringArtifact, TextArtifact>>},
   outputSchema : {NoValue, ObjectSchema, ObjectSchemaReordered, DecisionSchema},
   metadata : {Metadata, MetadataReordered}]

\* The first call of a pair: prompt p1 at schema version v1, with the
\* artifacts and the metadata in their first order.
FirstCalls ==
  {c \in KeyCalls : /\ c.prompt = Txt.p1
                    /\ c.schemaVersion = Txt.v1
                    /\ c.artifacts = <<TextArtifact, StringArtifact>>
                    /\ c.metadata = Metadata}

\* normalizedArtifacts.map(hashArtifact)
ArtifactHashes(artifacts) ==
  [i \in 1..Len(artifacts) |-> hashArtifact(normalizeArtifact(artifacts[i]))]

\* computeCacheKey({ prompt, model, schemaVersion, artifactHashes,
\*                  outputSchema: userOutputSchema })
DerivedKey(c) ==
  computeCacheKey(c.prompt, c.model, c.schemaVersion, ArtifactHashes(c.artifacts),
                  c.outputSchema)

NoKeyCalls == kcCalls = NoValue /\ kcKeys = NoValue

\* Two calls are made.
KeyPair(a, b) ==
  /\ kcCalls = NoValue
  /\ kcCalls' = <<a, b>>
  /\ UNCHANGED kcKeys

\* Each derives its cache key.
DeriveKeys ==
  /\ kcCalls # NoValue
  /\ kcKeys = NoValue
  /\ kcKeys' = <<DerivedKey(kcCalls[1]), DerivedKey(kcCalls[2])>>
  /\ UNCHANGED kcCalls

(***************************************************************************)
(* The router transport (llm_task_invoke.ts: invokeRemoteViaClawd) and     *)
(* what run makes of the envelope it returns.  The router answers with the *)
(* result of llm-task raw, in one { ok, result } layer, or in two.         *)
(***************************************************************************)
WireResults ==
  { JObj(<<Member(Txt.output, JObj(<<Member(Txt.text, JStr(t))>>))>> \o extra) :
      t \in {Txt.a, Txt.b},
      extra \in {<<>>, <<Member(Txt.model, JStr(Txt.m1))>>,
                 <<Member(Txt.status, JStr(Txt.completed))>>,
                 <<Member(Txt.model, JStr(Txt.m1)),
                   Member(Txt.status, JStr(Txt.completed))>>} }

\* The values of ok a layer can carry.
OkValues == {JBool(TRUE), JBool(FALSE), JNum(1)}

Layer(ok, res) == JObj(<<Member(Txt.ok, ok), Member(Txt.result, res)>>)

\* A body, with the result it wraps and the ok of its layers, outermost
\* first.
WireBodies ==
  { [body |-> r, result |-> r, oks |-> <<>>] : r \in WireResults }
  \cup { [body |-> Layer(ok, r), result |-> r, oks |-> <<ok>>] :
            r \in WireResults, ok \in OkValues }
  \cup { [body |-> Layer(outer, Layer(inner, r)), result |-> r, oks |-> <<outer, inner>>] :
            r \in WireResults, outer \in OkValues, inner \in OkValues }

\* A transport that takes every body for the result.
invokeRemoteRaw(parsed) == [threw |-> FALSE, envelope |-> Layer(JBool(TRUE), parsed)]

invokeRemoteViaClawd(parsed) ==
  IF parsed.t = "obj" /\ Get(parsed, Txt.ok) # NoValue
  THEN IF Get(parsed, Txt.ok) # JBool(TRUE)
       THEN [threw |-> TRUE, envelope |-> NoValue]
       ELSE LET inner == Get(parsed, Txt.result)
            IN IF inner.t = "obj" /\ Get(inner, Txt.ok) # NoValue
               THEN [threw |-> FALSE, envelope |-> inner]
               ELSE [threw |-> FALSE, envelope |-> Layer(JBool(TRUE), inner)]
  ELSE [threw |-> FALSE, envelope |-> Layer(JBool(TRUE), parsed)]

\* validateResponseEnvelope: ok is a boolean, and a result is an object with
\* an output object.
validateResponseEnvelope(envelope) ==
  /\ envelope.t = "obj"
  /\ Get(envelope, Txt.ok).t = "bool"
  /\ LET res == Get(envelope, Txt.result)
     IN res # NoValue =>
          /\ res.t = "obj"
          /\ Get(res, Txt.output).t = "obj"

\* One attempt of run over the router: the call, the checks of the
\* envelope, the normalized result.
Receive(body) ==
  LET got == invokeRemoteViaClawd(body)
  IN IF got.threw THEN [status |-> "error", error |-> "request failed"]
     ELSE IF ~validateResponseEnvelope(got.envelope)
     THEN [status |-> "error", error |-> "received invalid response envelope"]
     ELSE IF Get(got.envelope, Txt.ok) # JBool(TRUE)
     THEN [status |-> "error", error |-> "remote error"]
     ELSE [status |-> "ok",
           items |-> normalizeResult(
                       IF Get(got.envelope, Txt.result) = NoValue THEN JObj(<<>>)
                       ELSE Get(got.envelope, Txt.result),
                       <<1, 1>>, NoValue, "clawd", 1)]

NoWire == wire = NoValue /\ wireOut = NoValue

\* The router answers.
WireSend(b) ==
  /\ wire = NoValue
  /\ wire' = b
  /\ UNCHANGED wireOut

\* The invocation takes the answer.
WireReceive ==
  /\ wire # NoValue
  /\ wireOut = NoValue
  /\ wireOut' = Receive(wire.body)
  /\ UNCHANGED wire

(***************************************************************************)
(* The stage loop over the forms of a stage.  runPipeline of the CLI       *)
(* (runtime.ts) and the runPipeline wrapper of the SDK take a pipeline of  *)
(* stage names and look them up in the registry; runPipelineInternal takes *)
(* command objects, plain functions and generator functions.  A command    *)
(* object reads its whole input inside run, as every command under         *)
(* commands/ and sdk/primitives does; the body of a generator function     *)
(* runs when its output is read.  The trace records when the body of each  *)
(* stage starts and ends.                                                  *)
(***************************************************************************)
MaxForms == 3

NamedStages == {"command", "unknown"}
StageForms == {"command", "function", "generator"}
FormPipelines(forms) == UNION { [1..n -> forms] : n \in 0..MaxForms }

Start(i) == <<"start", i>>
End(i) == <<"end", i>>

\* A registry that knows every name.
RegistryHasAll(stage) == TRUE

\* registry.get(stage.name)
RegistryHas(stage) == stage # "unknown"

\* An engine that hands its stream to plain functions as well.
IsLazy(stage) == stage \in {"function", "generator"}

\* stage.constructor?.name === 'AsyncGeneratorFunction' || 'GeneratorFunction'
IsGenerator(stage) == stage = "generator"

\* for await (const item of stream): reading a stream to its end runs the
\* generator stages pending in it, the last one first, each reading the one
\* before it; they end from the first to the last.
Drain(pending) ==
  [k \in 1..Len(pending) |-> Start(pending[Len(pending) + 1 - k])]
  \o [k \in 1..Len(pending) |-> End(pending[k])]

NoPipeline ==
  [pc |-> "idle", engine |-> "none", pipeline |-> <<>>, idx |-> 0, pending |-> <<>>,
   trace |-> <<>>, ret |-> "none"]

\* The entry of an engine, up to the stage loop.  The wrapper resolves every
\* name before it enters runPipelineInternal.
PlStart(engine, pipeline) ==
  /\ pl.pc = "idle"
  /\ pl' = IF engine = "wrapper" /\ \E i \in 1..Len(pipeline) : ~RegistryHas(pipeline[i])
           THEN [NoPipeline EXCEPT !.pc = "done", !.engine = engine,
                                   !.pipeline = pipeline, !.ret = "Unknown command"]
           ELSE [NoPipeline EXCEPT !.pc = "loop", !.engine = engine,
                                   !.pipeline = pipeline]

\* One iteration of the stage loop.
PlStage ==
  /\ pl.pc = "loop"
  /\ pl.idx < Len(pl.pipeline)
  /\ LET stage == pl.pipeline[pl.idx + 1]
     IN pl' =
          IF pl.engine = "cli" /\ ~RegistryHas(stage)
          THEN [pl EXCEPT !.pc = "done", !.ret = "Unknown command"]
          ELSE IF IsGenerator(stage)
          THEN [pl EXCEPT !.idx = @ + 1, !.pending = Append(@, pl.idx)]
          ELSE IF stage = "function"
          THEN [pl EXCEPT !.idx = @ + 1, !.pending = <<>>,
                          !.trace = @ \o Drain(pl.pending)
                                      \o <<Start(pl.idx), End(pl.idx)>>]
          ELSE [pl EXCEPT !.idx = @ + 1, !.pending = <<>>,
                          !.trace = @ \o <<Start(pl.idx)>> \o Drain(pl.pending)
                                      \o <<End(pl.idx)>>]

\* The loop is over: the stream is collected and the engine returns.
PlCollect ==
  /\ pl.pc = "loop"
  /\ pl.idx = Len(pl.pipeline)
  /\ pl' = [pl EXCEPT !.pc = "done", !.pending = <<>>,
                      !.trace = @ \o Drain(pl.pending), !.ret = "returned"]

(***************************************************************************)
(* One gate in a pipeline with a stage after it, under the CLI engine with *)
(* the gate of commands/stdlib/approve.ts and under the SDK engine with    *)
(* the gate of sdk/primitives/approve.ts.  The operator's answer is the    *)
(* line read from the terminal.                                            *)
(***************************************************************************)
\* The lines an operator types, with what the operator meant.
OperatorAnswers ==
  { [text |-> Txt.y, yes |-> TRUE],
    [text |-> Txt.yes, yes |-> TRUE],
    [text |-> <<89, 69, 83>>, yes |-> TRUE],
    [text |-> <<32, 121, 13>>, yes |-> TRUE],
    [text |-> Txt.n, yes |-> FALSE],
    [text |-> <<>>, yes |-> FALSE],
    [text |-> <<121, 101, 97, 104>>, yes |-> FALSE] }

GateEnvs ==
  { [engine |-> "cli", mode |-> mode, tty |-> tty, answer |-> a.text] :
      mode \in {"tool", "human"}, tty \in BOOLEAN, a \in OperatorAnswers }
GateStages == { GateArgs(Txt.first, emit) : emit \in BOOLEAN }
SdkGates == { Gate(Txt.first, preview) : preview \in BOOLEAN }

NoGate ==
  [pc |-> "idle", stage |-> Plain("inc"), env |-> SdkEnv, items |-> <<>>,
   out |-> Returned(FALSE, <<>>), outcome |-> "none", downstream |-> <<>>,
   downstreamRan |-> FALSE]

\* A pipeline <<gate, stage>> is run on items.
GateStart(stage, env, items) ==
  /\ gate.pc = "idle"
  /\ gate' = [NoGate EXCEPT !.pc = "gate", !.stage = stage, !.env = env,
                            !.items = items]

\* The iteration of the stage loop that runs the gate.
GateStage ==
  /\ gate.pc = "gate"
  /\ LET r == RunStage(gate.stage, gate.items, gate.env)
     IN gate' = [gate EXCEPT !.out = r,
                             !.pc = IF r.threw \/ HaltBreaks(r) THEN "done" ELSE "next",
                             !.outcome = IF r.threw THEN r.error
                                         ELSE IF HaltBreaks(r) THEN "halted"
                                         ELSE "running"]

\* The next iteration: the stage after the gate runs on the gate's output.
GateDownstream ==
  /\ gate.pc = "next"
  /\ gate' = [gate EXCEPT !.pc = "done", !.outcome = "completed",
                          !.downstream = OutputOf(gate.out), !.downstreamRan = TRUE]

(***************************************************************************)
(* The state directory: one JSON file per key (sdk/primitives/state.js and *)
(* sdk/primitives/diff.ts).  A file holds JSON.stringify(value, null, 2)   *)
(* and a newline.                                                          *)
(***************************************************************************)
SafeChar(c) == c \in (97..122) \cup (48..57) \cup {46, 95, 45}

RECURSIVE DropUnsafe(_)
DropUnsafe(text) ==
  IF text # <<>> /\ ~SafeChar(Head(text)) THEN DropUnsafe(Tail(text)) ELSE text
\* .replace(/[^a-z0-9._-]+/g, '_')
RECURSIVE ReplaceUnsafe(_)
ReplaceUnsafe(text) ==
  IF text = <<>> THEN <<>>
  ELSE IF SafeChar(Head(text)) THEN <<Head(text)>> \o ReplaceUnsafe(Tail(text))
  ELSE <<95>> \o ReplaceUnsafe(DropUnsafe(Tail(text)))

RECURSIVE DropUnderscores(_)
DropUnderscores(text) ==
  IF text # <<>> /\ Head(text) = 95 THEN DropUnderscores(Tail(text)) ELSE text
\* .replace(/_+/g, '_')
RECURSIVE CollapseUnderscores(_)
CollapseUnderscores(text) ==
  IF text = <<>> THEN <<>>
  ELSE IF Head(text) = 95 THEN <<95>> \o CollapseUnderscores(DropUnderscores(Tail(text)))
  ELSE <<Head(text)>> \o CollapseUnderscores(Tail(text))

\* .replace(/^_+|_+$/g, '')
StripUnderscores(text) ==
  LET front == DropUnderscores(text)
  IN IF front # <<>> /\ front[Len(front)] = 95
     THEN SubSeq(front, 1, Len(front) - 1)   \* runs are collapsed: one at most
     ELSE front

\* keyToPath(stateDir, key): the file of a key within the state directory.
keyToPath(key) ==
  LET safe == StripUnderscores(CollapseUnderscores(ReplaceUnsafe(LowerCase(key))))
  IN IF safe = <<>> THEN [ok |-> FALSE, error |-> "state key is empty/invalid"]
     ELSE [ok |-> TRUE, path |-> safe \o <<46, 106, 115, 111, 110>>]

\* JSON.stringify(value, null, 2)
Spaces(n) == [i \in 1..n |-> 32]
RECURSIVE PrettyStringify(_, _)
RECURSIVE PrettyLines(_, _, _)
PrettyStringify(val, indent) ==
  IF val.t = "arr" /\ val.a # <<>>
  THEN <<91, 10>> \o PrettyLines(val, indent + 2, 1) \o <<10>> \o Spaces(indent) \o <<93>>
  ELSE IF val.t = "obj" /\ val.o # <<>>
  THEN <<123, 10>> \o PrettyLines(val, indent + 2, 1) \o <<10>> \o Spaces(indent) \o <<125>>
  ELSE Stringify(val)
PrettyLines(val, indent, i) ==
  LET n == IF val.t = "arr" THEN Len(val.a) ELSE Len(val.o)
      line == IF val.t = "arr"
              THEN Spaces(indent) \o PrettyStringify(val.a[i], indent)
              ELSE Spaces(indent) \o Quote(val.o[i].k) \o <<58, 32>>
                     \o PrettyStringify(val.o[i].v, indent)
  IN IF i = n THEN line ELSE line \o <<44, 10>> \o PrettyLines(val, indent, i + 1)

\* The text written for a value.
FileText(value) == PrettyStringify(value, 0) \o <<10>>

\* A comparison text that keeps the keys in insertion order.
diffInsertionOrderStringify(value) == Stringify(value)

\* diff.ts stableStringify: JSON.stringify with a replacer that rebuilds
\* every object with its keys sorted.
diffStableStringify(value) == Stringify(SortKeys(value))

\* const value = items.length === 1 ? items[0] : items
ValueOfItems(items) == IF Len(items) = 1 THEN items[1] ELSE JArr(items)

\* The keys callers use: k1, K1, k2 and the key "/".
KeyK1 == <<107, 49>>
KeyUpperK1 == <<75, 49>>
KeyK2 == <<107, 50>>
KeySlash == <<47>>
Keys == {KeyK1, KeyUpperK1, KeyK2, KeySlash}
\* The file of each key, computed once.
PathOf == [k \in Keys |-> keyToPath(k)]
StatePaths == { PathOf[k].path : k \in {k \in Keys : PathOf[k].ok} }

AB == JObj(<<Member(Txt.a, JNum(1)), Member(Txt.b, JNum(2))>>)
BA == JObj(<<Member(Txt.b, JNum(2)), Member(Txt.a, JNum(1))>>)
StateInputs == { <<JNull>>, <<>>, <<JArr(<<>>)>>, <<AB>>, <<BA>> }
StateValues == { ValueOfItems(items) : items \in StateInputs }
\* The text written for each value, what JSON.parse makes of each text and
\* the stable text of each value, computed once.
TextOf == [v \in StateValues |-> FileText(v)]
ParseOf == [text \in { TextOf[v] : v \in StateValues } |-> JsonParse(text).v]
StableOf == [v \in StateValues |-> diffStableStringify(v)]

NoRun == [t |-> "undefined"]
DiffInput(key, items) == [t |-> "input", key |-> key, items |-> items]
NoOp ==
  [op |-> "none", key |-> <<>>, input |-> <<>>, threw |-> "", out |-> <<>>,
   changed |-> FALSE, suppressed |-> FALSE, before |-> JNull,
   storedBefore |-> NoRun, prev |-> NoRun]
NoDiff == [t |-> "undefined"]

NoState ==
  /\ stateFiles = [p \in StatePaths |-> <<>>]
  /\ storedValues = [p \in StatePaths |-> NoRun]
  /\ diffInputs = NoDiff
  /\ stateOp = NoOp

\* fsp.readFile and JSON.parse, null for a file that does not exist.
ReadFile(path) ==
  IF stateFiles[path] = <<>> THEN JNull ELSE ParseOf[stateFiles[path]]

\* fsp.writeFile of the text of a value.
WriteFile(path, value) ==
  /\ stateFiles' = [stateFiles EXCEPT ![path] = TextOf[value]]
  /\ storedValues' = [storedValues EXCEPT ![path] = value]

StateOpFailed(op, key, input, error) ==
  /\ stateOp' = [NoOp EXCEPT !.op = op, !.key = key, !.input = input, !.threw = error]
  /\ UNCHANGED <<stateFiles, storedValues, diffInputs>>

\* stateGet(key).run: the input is drained and the value of the key is the
\* one item of the output.
stateGet(key) ==
  IF key = <<>> THEN StateOpFailed("stateGet", key, <<>>, "stateGet requires a key")
  ELSE IF ~PathOf[key].ok THEN StateOpFailed("stateGet", key, <<>>, PathOf[key].error)
  ELSE /\ stateOp' = [NoOp EXCEPT !.op = "stateGet", !.key = key,
                                  !.out = <<ReadFile(PathOf[key].path)>>]
       /\ UNCHANGED <<stateFiles, storedValues, diffInputs>>

\* stateSet(key).run
stateSet(key, items) ==
  IF key = <<>> THEN StateOpFailed("stateSet", key, items, "stateSet requires a key")
  ELSE IF ~PathOf[key].ok THEN StateOpFailed("stateSet", key, items, PathOf[key].error)
  ELSE /\ WriteFile(PathOf[key].path, ValueOfItems(items))
       /\ stateOp' = [NoOp EXCEPT !.op = "stateSet", !.key = key, !.input = items,
                                  !.out = <<ValueOfItems(items)>>]
       /\ UNCHANGED diffInputs

\* readState(key, ctx)
readState(key) ==
  IF ~PathOf[key].ok THEN StateOpFailed("readState", key, <<>>, PathOf[key].error)
  ELSE /\ stateOp' = [NoOp EXCEPT !.op = "readState", !.key = key,
                                  !.out = <<ReadFile(PathOf[key].path)>>]
       /\ UNCHANGED <<stateFiles, storedValues, diffInputs>>

\* writeState(key, value, ctx)
writeState(key, value) ==
  IF ~PathOf[key].ok THEN StateOpFailed("writeState", key, <<value>>, PathOf[key].error)
  ELSE /\ WriteFile(PathOf[key].path, value)
       /\ stateOp' = [NoOp EXCEPT !.op = "writeState", !.key = key, !.input = <<value>>]
       /\ UNCHANGED diffInputs

\* The comparison and the store shared by diffLast and diffAndStoreValue.
DiffAndStore(op, key, items, value, changesOnly) ==
  LET path == PathOf[key].path
      before == ReadFile(path)
      changed == StableOf[before] # StableOf[value]
  IN /\ WriteFile(path, value)
     /\ stateOp' = [NoOp EXCEPT !.op = op, !.key = key, !.input = items,
                                !.changed = changed,
                                !.suppressed = changesOnly /\ ~changed,
                                !.before = before,
                                !.out = IF changesOnly /\ ~changed THEN <<>>
                                        ELSE <<before, value>>,
                                !.storedBefore = storedValues[path],
                                !.prev = diffInputs]

\* diffLast(key, options).run
diffLast(key, items, changesOnly) ==
  IF key = <<>> THEN StateOpFailed("diffLast", key, items, "diffLast requires a key")
  ELSE IF ~PathOf[key].ok THEN StateOpFailed("diffLast", key, items, PathOf[key].error)
  ELSE /\ DiffAndStore("diffLast", key, items, ValueOfItems(items), changesOnly)
       /\ diffInputs' = DiffInput(key, items)

\* diffAndStoreValue(key, value, ctx)
diffAndStoreValue(key, value) ==
  IF ~PathOf[key].ok
  THEN StateOpFailed("diffAndStoreValue", key, <<value>>, PathOf[key].error)
  ELSE /\ DiffAndStore("diffAndStoreValue", key, <<value>>, value, FALSE)
       /\ UNCHANGED diffInputs

(***************************************************************************)
(* The deterministic email triage (commands/stdlib/email_triage.ts).       *)
(***************************************************************************)
NoTriage ==
  [pc |-> "idle", input |-> <<>>, limit |-> 0, emit |-> "report", emails |-> <<>>,
   report |-> NoValue, out |-> <<>>]

\* The property names and the texts of the triage, as code points.
TriageTxt ==
  [
    id |-> <<105, 100>>,
    messageId |-> <<109, 101, 115, 115, 97, 103, 101, 73, 100>>,
    from |-> <<102, 114, 111, 109>>,
    sender |-> <<115, 101, 110, 100, 101, 114>>,
    subject |-> <<115, 117, 98, 106, 101, 99, 116>>,
    labels |-> <<108, 97, 98, 101, 108, 115>>,
    urgent |-> <<117, 114, 103, 101, 110, 116>>,
    actionRequired |-> <<97, 99, 116, 105, 111, 110, 32, 114, 101, 113, 117, 105, 114, 101, 100>>,
    noReply |-> <<110, 111, 45, 114, 101, 112, 108, 121>>,
    noreply |-> <<110, 111, 114, 101, 112, 108, 121>>,
    doNotReply |-> <<100, 111, 45, 110, 111, 116, 45, 114, 101, 112, 108, 121>>,
    donotreply |-> <<100, 111, 110, 111, 116, 114, 101, 112, 108, 121>>,
    UNREAD |-> <<85, 78, 82, 69, 65, 68>>,
    needReplies |-> <<32, 110, 101, 101, 100, 32, 114, 101, 112, 108, 105, 101, 115, 44, 32>>,
    needAction |-> <<32, 110, 101, 101, 100, 32, 97, 99, 116, 105, 111, 110, 44, 32>>,
    fyi |-> <<32, 70, 89, 73>>,
    m1 |-> <<109, 49>>,
    m2 |-> <<109, 50>>,
    hello |-> <<104, 105>>,
    Urgent |-> <<85, 114, 103, 101, 110, 116, 33>>,
    ActionRequired |-> <<65, 67, 84, 73, 79, 78, 32, 82, 69, 81, 85, 73, 82, 69, 68>>,
    alice |-> <<65, 108, 32, 60, 97, 64, 98, 46, 99, 62>>,
    robot |-> <<78, 111, 45, 82, 101, 112, 108, 121, 64, 98, 46, 99>>,
    unread |-> <<117, 110, 114, 101, 97, 100>>,
    INBOX |-> <<73, 78, 66, 79, 88>> ]

\* a ?? b
Coalesce(a, b) == IF Nullish(a) THEN b ELSE a
\* String(x) of a string or a number
StringOf(v) == IF v.t = "num" THEN NumChars(v.n) ELSE v.s

normalizeEmail(raw) ==
  LET T == TriageTxt
      labels == Get(raw, T.labels)
  IN [id |-> Trim(StringOf(Coalesce(Coalesce(Get(raw, T.id), Get(raw, T.messageId)), JStr(<<>>)))),
      from |-> Trim(StringOf(Coalesce(Coalesce(Get(raw, T.from), Get(raw, T.sender)), JStr(<<>>)))),
      subject |-> Trim(StringOf(Coalesce(Get(raw, T.subject), JStr(<<>>)))),
      labels |-> IF labels.t = "arr"
                 THEN [i \in 1..Len(labels.a) |-> StringOf(labels.a[i])] ELSE <<>>]

\* text.includes(part)
Includes(text, part) ==
  \E i \in 1..(Len(text) - Len(part) + 1) : SubSeq(text, i, i + Len(part) - 1) = part

UpperCase(text) ==
  [k \in 1..Len(text) |-> IF text[k] \in 97..122 THEN text[k] - 32 ELSE text[k]]

isLikelyNoReply(from) ==
  LET f == LowerCase(from)
  IN \/ Includes(f, TriageTxt.noReply) \/ Includes(f, TriageTxt.noreply)
     \/ Includes(f, TriageTxt.doNotReply) \/ Includes(f, TriageTxt.donotreply)

\* A triage that looks at the sender and the labels first.
BucketReplyFirst(e) ==
  LET subjLower == LowerCase(e.subject)
      unread == \E i \in 1..Len(e.labels) : UpperCase(e.labels[i]) = TriageTxt.UNREAD
  IN IF unread /\ ~isLikelyNoReply(e.from) THEN "needsReply"
     ELSE IF Includes(subjLower, TriageTxt.actionRequired) \/ Includes(subjLower, TriageTxt.urgent)
     THEN "needsAction"
     ELSE "fyi"

\* The body of the loop of buildDeterministicReport: the bucket an email is
\* pushed to.
BucketOf(e) ==
  LET subjLower == LowerCase(e.subject)
      unread == \E i \in 1..Len(e.labels) : UpperCase(e.labels[i]) = TriageTxt.UNREAD
  IN IF Includes(subjLower, TriageTxt.actionRequired) \/ Includes(subjLower, TriageTxt.urgent)
     THEN "needsAction"
     ELSE IF unread /\ ~isLikelyNoReply(e.from) THEN "needsReply"
     ELSE "fyi"

RECURSIVE PushAll(_, _, _)
PushAll(emails, i, buckets) ==
  IF i > Len(emails) THEN buckets
  ELSE LET b == BucketOf(emails[i])
       IN PushAll(emails, i + 1, [buckets EXCEPT ![b] = Append(@, emails[i])])

buildDeterministicReport(emails) ==
  LET buckets == PushAll(emails, 1, [needsReply |-> <<>>, needsAction |-> <<>>, fyi |-> <<>>])
      ids(list) == [i \in 1..Len(list) |-> list[i].id]
  IN [summary |-> NumChars(Len(buckets.needsReply)) \o TriageTxt.needReplies
                    \o NumChars(Len(buckets.needsAction)) \o TriageTxt.needAction
                    \o NumChars(Len(buckets.fyi)) \o TriageTxt.fyi,
      buckets |-> [needsReply |-> ids(buckets.needsReply),
                   needsAction |-> ids(buckets.needsAction),
                   fyi |-> ids(buckets.fyi)],
      emails |-> emails,
      mode |-> "deterministic"]

\* The emails a search hands to the triage.
MaxEmails == 2
RawEmail(id, from, subject, label) ==
  JObj(<<Member(TriageTxt.id, JStr(id)), Member(TriageTxt.from, JStr(from)),
         Member(TriageTxt.subject, JStr(subject)),
         Member(TriageTxt.labels, JArr(<<JStr(label)>>))>>)
RawEmails ==
  { RawEmail(id, from, subject, label) :
      id \in {TriageTxt.m1, TriageTxt.m2},
      from \in {TriageTxt.alice, TriageTxt.robot},
      subject \in {TriageTxt.hello, TriageTxt.Urgent, TriageTxt.ActionRequired},
      label \in {TriageTxt.unread, TriageTxt.INBOX} }
    \cup { JObj(<<Member(TriageTxt.messageId, JStr(TriageTxt.m1)),
                   Member(TriageTxt.sender, JStr(TriageTxt.alice))>>) }
EmailInputs == UNION { [1..n -> RawEmails] : n \in 0..MaxEmails }
TriageLimits == {1, 20}

\* emailTriageCommand.run without --llm, up to the loop over the input.
TriageStart(items, limit, emit) ==
  /\ triage.pc = "idle"
  /\ triage' = [NoTriage EXCEPT !.pc = IF items = <<>> THEN "build" ELSE "consume",
                                !.input = items, !.limit = limit, !.emit = emit]

\* One iteration of the loop: the item is normalised and pushed, and the
\* loop ends at the limit or with the input.
TriageConsume ==
  /\ triage.pc = "consume"
  /\ LET emails == Append(triage.emails, normalizeEmail(Head(triage.input)))
     IN triage' = [triage EXCEPT !.emails = emails,
                                 !.input = Tail(triage.input),
                                 !.pc = IF Len(emails) >= triage.limit \/ Tail(triage.input) = <<>>
                                        THEN "build" ELSE "consume"]

\* The report is built and emitted (nothing is emitted as drafts).
TriageBuild ==
  /\ triage.pc = "build"
  /\ LET report == buildDeterministicReport(triage.emails)
     IN triage' = [triage EXCEPT !.pc = "done", !.report = report,
                                 !.out = IF triage.emit = "drafts" THEN <<>> ELSE <<report>>]

(***************************************************************************)
(* Two invocations of llm_task.invoke with the same request and the same   *)
(* state key, running at once over the same stores.  Each await of run is  *)
(* a step: the read of the run state, the read of the cache, the call, the *)
(* write of the run state, the write of the cache.  The remote gives each  *)
(* call a run id and an answer of its own choosing.                        *)
(***************************************************************************)
Racers == {1, 2}
RaceEnv == [url |-> TRUE, clawd |-> FALSE, model |-> Txt.m1]
RaceArgs ==
  [prompt |-> Txt.p1, outputSchema |-> NoValue, retries |-> NoValue,
   stateKey |-> "k1", refresh |-> FALSE, disableCache |-> FALSE]
RaceKey == CacheKeyOf(RaceArgs, RaceEnv)
RunIds == {<<1, 1>>, <<2, 1>>}
Answers == {"answer_a", "answer_b"}

NoRace ==
  /\ racers = [p \in Racers |-> [pc |-> "state", items |-> <<>>, missed |-> FALSE]]
  /\ laterHit = <<>>

\* await readStateJson(...), pickReusableState
RaceReadState(p) ==
  /\ racers[p].pc = "state"
  /\ LET reused == pickReusableState(readStateJson(runState, RaceArgs.stateKey), RaceKey)
     IN racers' = [racers EXCEPT ![p] =
          IF reused # NoValue
          THEN [pc |-> "done", items |-> Served(reused.items, "run_state"),
                missed |-> FALSE]
          ELSE [@ EXCEPT !.pc = "cache"]]
  /\ UNCHANGED <<runState, cache, laterHit>>

\* await readCacheEntry(env, cacheKey)
RaceReadCache(p) ==
  /\ racers[p].pc = "cache"
  /\ LET hit == readCacheEntry(cache, RaceKey)
     IN racers' = [racers EXCEPT ![p] =
          IF hit # NoValue
          THEN [pc |-> "done", items |-> Served(hit.items, "cache"), missed |-> FALSE]
          ELSE [@ EXCEPT !.pc = "call", !.missed = TRUE]]
  /\ UNCHANGED <<runState, cache, laterHit>>

\* await invokeRemoteDirect(...), normalizeResult
RaceCall(p, runId, answer) ==
  /\ racers[p].pc = "call"
  /\ racers' = [racers EXCEPT ![p] =
       [@ EXCEPT !.pc = "persist",
                 !.items = normalizeResult(answer, runId, RaceKey, "remote", 1)]]
  /\ UNCHANGED <<runState, cache, laterHit>>

\* await persistOutputs(...)
RacePersist(p) ==
  /\ racers[p].pc = "persist"
  /\ runState' = persistOutputs(runState, RaceArgs.stateKey, RaceKey, racers[p].items)
  /\ racers' = [racers EXCEPT ![p] = [@ EXCEPT !.pc = "write"]]
  /\ UNCHANGED <<cache, laterHit>>

\* await writeCacheEntry(env, cacheKey, items), return
RaceWriteCache(p) ==
  /\ racers[p].pc = "write"
  /\ cache' = writeCacheEntry(cache, RaceKey, racers[p].items)
  /\ racers' = [racers EXCEPT ![p] = [@ EXCEPT !.pc = "done"]]
  /\ UNCHANGED <<runState, laterHit>>

\* A later invocation of the same request without a state key, after both:
\* it is served by the cache.
RaceLaterHit ==
  /\ \A p \in Racers : racers[p].pc = "done"
  /\ laterHit = <<>>
  /\ readCacheEntry(cache, RaceKey) # NoValue
  /\ laterHit' = Served(readCacheEntry(cache, RaceKey).items, "cache")
  /\ UNCHANGED <<runState, cache, racers>>

\* The environment llm_task.invoke is not run in.
NoEnv == [url |-> FALSE, clawd |-> FALSE, model |-> <<>>]

Init == InitToken /\ InitEngine /\ LlmIdle /\ procEnv = NoEnv /\ NoKeyCalls /\ NoWire /\ pl = NoPipeline /\ NoRace /\ gate = NoGate /\ NoState /\ triage = NoTriage

\* llm_task.invoke starts in any of the environments.
InitLlm == InitToken /\ InitEngine /\ LlmIdle /\ procEnv \in Envs /\ NoKeyCalls /\ NoWire /\ pl = NoPipeline /\ NoRace /\ gate = NoGate /\ NoState /\ triage = NoTriage

Next ==
  \/ \E stage \in StageSet : Pipe(stage) /\ UNCHANGED <<tokenVars, llmVars, keyVars, wireVars, plVars, raceVars, gateVars, stateVars, triageVars>>
  \/ \E input \in Inputs : Run(input) /\ UNCHANGED <<tokenVars, llmVars, keyVars, wireVars, plVars, raceVars, gateVars, stateVars, triageVars>>
  \/ \E input \in Inputs, env \in CliEnvs : RunCli(input, env) /\ UNCHANGED <<tokenVars, llmVars, keyVars, wireVars, plVars, raceVars, gateVars, stateVars, triageVars>>
  \/ \E token \in issued \cup ForgedTokens, approved \in BOOLEAN :
       Resume(token, approved) /\ UNCHANGED <<tokenVars, llmVars, keyVars, wireVars, plVars, raceVars, gateVars, stateVars, triageVars>>
  \/ StageStep /\ UNCHANGED <<tokenVars, llmVars, keyVars, wireVars, plVars, raceVars, gateVars, stateVars, triageVars>>
  \/ Return /\ UNCHANGED <<tokenVars, llmVars, keyVars, wireVars, plVars, raceVars, gateVars, stateVars, triageVars>>

Spec == Init /\ [][Next]_vars

\* The engine is an async function over stages that each terminate: an
\* iteration of the loop that can run does run.
EngineFrame == UNCHANGED <<tokenVars, llmVars, keyVars, wireVars, plVars, raceVars, gateVars, stateVars, triageVars>>

\* The same workflow over shorter stage lists.
MaxLiveStages == 3
NextLive ==
  \/ \E stage \in StageSet : Len(stages) < MaxLiveStages /\ Pipe(stage) /\ EngineFrame
  \/ \E input \in Inputs : Run(input) /\ EngineFrame
  \/ \E input \in Inputs, env \in CliEnvs : RunCli(input, env) /\ EngineFrame
  \/ \E token \in issued \cup ForgedTokens, approved \in BOOLEAN :
       Resume(token, approved) /\ EngineFrame
  \/ StageStep /\ EngineFrame
  \/ Return /\ EngineFrame

SpecLive == Init /\ [][NextLive]_vars /\ WF_vars(StageStep /\ EngineFrame)

NextToken ==
  \/ \E d \in TokRecords : TokEncode(d) /\ UNCHANGED <<engineVars, llmVars, keyVars, wireVars, plVars, raceVars, gateVars, stateVars, triageVars>>
  \/ \E k \in 1..MaxCut : TokTruncate(k) /\ UNCHANGED <<engineVars, llmVars, keyVars, wireVars, plVars, raceVars, gateVars, stateVars, triageVars>>
  \/ \E text \in ForgedTexts : TokForge(text) /\ UNCHANGED <<engineVars, llmVars, keyVars, wireVars, plVars, raceVars, gateVars, stateVars, triageVars>>
  \/ TokDecode /\ UNCHANGED <<engineVars, llmVars, keyVars, wireVars, plVars, raceVars, gateVars, stateVars, triageVars>>

SpecToken == Init /\ [][NextToken]_vars

NextLlm ==
  \/ \E args \in Requests : Invoke(args) /\ UNCHANGED <<tokenVars, engineVars, keyVars, wireVars, plVars, raceVars, gateVars, stateVars, triageVars>>
  \/ \E response \in Responses : Attempt(response) /\ UNCHANGED <<tokenVars, engineVars, keyVars, wireVars, plVars, raceVars, gateVars, stateVars, triageVars>>

SpecLlm == InitLlm /\ [][NextLlm]_vars

NextKey ==
  \/ \E a \in FirstCalls, b \in KeyCalls :
       KeyPair(a, b) /\ UNCHANGED <<tokenVars, engineVars, llmVars, wireVars, plVars, raceVars, gateVars, stateVars, triageVars>>
  \/ DeriveKeys /\ UNCHANGED <<tokenVars, engineVars, llmVars, wireVars, plVars, raceVars, gateVars, stateVars, triageVars>>

SpecKey == Init /\ [][NextKey]_vars

NextWire ==
  \/ \E b \in WireBodies :
       WireSend(b) /\ UNCHANGED <<tokenVars, engineVars, llmVars, keyVars, plVars, raceVars, gateVars, stateVars, triageVars>>
  \/ WireReceive /\ UNCHANGED <<tokenVars, engineVars, llmVars, keyVars, plVars, raceVars, gateVars, stateVars, triageVars>>

SpecWire == Init /\ [][NextWire]_vars

NextForms ==
  \/ \E engine \in {"cli", "wrapper"}, pipeline \in FormPipelines(NamedStages) :
       PlStart(engine, pipeline)
       /\ UNCHANGED <<tokenVars, engineVars, llmVars, keyVars, wireVars, raceVars, gateVars, stateVars, triageVars>>
  \/ \E pipeline \in FormPipelines(StageForms) :
       PlStart("internal", pipeline)
       /\ UNCHANGED <<tokenVars, engineVars, llmVars, keyVars, wireVars, raceVars, gateVars, stateVars, triageVars>>
  \/ PlStage /\ UNCHANGED <<tokenVars, engineVars, llmVars, keyVars, wireVars, raceVars, gateVars, stateVars, triageVars>>
  \/ PlCollect /\ UNCHANGED <<tokenVars, engineVars, llmVars, keyVars, wireVars, raceVars, gateVars, stateVars, triageVars>>

SpecForms == Init /\ [][NextForms]_vars

RaceFrame ==
  UNCHANGED <<tokenVars, engineVars, keyVars, wireVars, plVars, gateVars, stateVars,
              triageVars, procEnv,
              llm, prev, log, runStateBefore, cacheBefore, clock>>

NextRace ==
  \/ \E p \in Racers : RaceReadState(p) /\ RaceFrame
  \/ \E p \in Racers : RaceReadCache(p) /\ RaceFrame
  \/ \E p \in Racers, runId \in RunIds, answer \in Answers :
       RaceCall(p, runId, answer) /\ RaceFrame
  \/ \E p \in Racers : RacePersist(p) /\ RaceFrame
  \/ \E p \in Racers : RaceWriteCache(p) /\ RaceFrame
  \/ RaceLaterHit /\ RaceFrame

SpecRace == Init /\ [][NextRace]_vars

GateFrame ==
  UNCHANGED <<tokenVars, engineVars, llmVars, keyVars, wireVars, plVars, raceVars,
              stateVars, triageVars>>

NextGate ==
  \/ \E stage \in GateStages, env \in GateEnvs, items \in Inputs :
       GateStart(stage, env, items) /\ GateFrame
  \/ \E stage \in SdkGates, items \in Inputs :
       GateStart(stage, SdkEnv, items) /\ GateFrame
  \/ GateStage /\ GateFrame
  \/ GateDownstream /\ GateFrame

SpecGate == Init /\ [][NextGate]_vars

StateFrame ==
  UNCHANGED <<tokenVars, engineVars, llmVars, keyVars, wireVars, plVars, raceVars,
              gateVars, triageVars>>

NextState ==
  \/ \E key \in Keys : stateGet(key) /\ StateFrame
  \/ \E key \in Keys, items \in StateInputs : stateSet(key, items) /\ StateFrame
  \/ \E key \in Keys : readState(key) /\ StateFrame
  \/ \E key \in Keys, value \in StateValues : writeState(key, value) /\ StateFrame
  \/ \E key \in Keys, items \in StateInputs, changesOnly \in BOOLEAN :
       diffLast(key, items, changesOnly) /\ StateFrame
  \/ \E key \in Keys, value \in StateValues :
       diffAndStoreValue(key, value) /\ StateFrame

SpecState == Init /\ [][NextState]_vars

TriageFrame ==
  UNCHANGED <<tokenVars, engineVars, llmVars, keyVars, wireVars, plVars, raceVars,
              gateVars, stateVars>>

NextTriage ==
  \/ \E items \in EmailInputs, limit \in TriageLimits, emit \in {"report", "drafts"} :
       TriageStart(items, limit, emit) /\ TriageFrame
  \/ TriageConsume /\ TriageFrame
  \/ TriageBuild /\ TriageFrame

SpecTriage == Init /\ [][NextTriage]_vars

\* Calls that also give --temperature, --max-output-tokens and
\* --metadata-json, with the stores in use (no --refresh, no
\* --disable-cache).
Tunings ==
  { [temperature |-> NoValue, maxOutputTokens |-> NoValue, metadata |-> NoValue],
    [temperature |-> JNum(1), maxOutputTokens |-> NoValue, metadata |-> NoValue],
    [temperature |-> NoValue, maxOutputTokens |-> JNum(1), metadata |-> NoValue],
    [temperature |-> NoValue, maxOutputTokens |-> NoValue, metadata |-> Metadata] }
VariantRequests ==
  { [prompt |-> Txt.p1, outputSchema |-> schema, retries |-> NoValue,
     stateKey |-> key, refresh |-> FALSE, disableCache |-> FALSE,
     temperature |-> t.temperature, maxOutputTokens |-> t.maxOutputTokens,
     metadata |-> t.metadata] :
      schema \in {NoValue, DecisionSchema}, key \in {NoKey} \cup StateKeys,
      t \in Tunings }

LlmFrame ==
  UNCHANGED <<tokenVars, engineVars, keyVars, wireVars, plVars, raceVars, gateVars,
              stateVars, triageVars>>

NextVariant ==
  \/ \E args \in VariantRequests : Invoke(args) /\ LlmFrame
  \/ \E response \in Responses : Attempt(response) /\ LlmFrame

SpecVariant == InitLlm /\ [][NextVariant]_vars

(***************************************************************************)
(* Properties of the engines and of the workflow object.                   *)
(***************************************************************************)
\* Whether a stage returns halt in an environment (no stage of the model
\* decides it by its input).
Halts(stage, env) == RunStage(stage, <<>>, env).halt

\* The output of stage k..Len(list) applied one after the other to items.
RECURSIVE PipeOutput(_, _, _, _)
PipeOutput(list, k, items, env) ==
  IF k > Len(list) THEN items
  ELSE PipeOutput(list, k + 1, RunStage(list[k], items, env).output, env)

\* The position in the pipeline of the stage that ran last.
LastRun == executed[Len(executed)]

\* The record a returned token carries.
Carried == decodeToken(result.requiresApproval.resumeToken).v

\* C1: in either engine, once stage i has returned halt no stage after i is
\* invoked (the stages run are exactly 0..i), and the engine's result has
\* halted = true, haltedAt.index = i and as items the output of stage i.
C1_HaltStopsPipeline ==
  halted =>
    /\ pc # "loop"
    /\ executed = [k \in 1..(haltedAt.index + 1) |-> call.offset + k - 1]
    /\ Halts(rstages[haltedAt.index + 1], call.env)
    /\ ret.state = "returned" =>
         /\ ret.halted
         /\ ret.haltedAt.index = haltedAt.index
         /\ ret.items = RunStage(rstages[haltedAt.index + 1], gateInput, call.env).output

C1_Witness ==
  /\ call.op = "cli"
  /\ ret.state = "returned"
  /\ ret.halted
  /\ ret.haltedAt.index = 1
  /\ Len(rstages) = 4
  /\ Len(executed) = 2
  /\ Len(ret.items) = 2

\* C2: when no stage returns halt and the engine returns, its result has
\* halted = false and as items the complete output of the last stage, which
\* is the initial input when the pipeline is empty.
C2_NoHaltRunsToEnd ==
  (ret.state = "returned" /\ \A k \in 1..Len(rstages) : ~Halts(rstages[k], call.env)) =>
    /\ ~ret.halted
    /\ ret.haltedAt = JNull
    /\ ret.items = PipeOutput(rstages, 1, call.input, call.env)
    /\ Len(executed) = Len(rstages)

C2_Witness ==
  /\ call.op = "run"
  /\ ret.state = "returned"
  /\ ~ret.halted
  /\ Len(rstages) = 2
  /\ call.input = <<JNum(1), JNum(2)>>
  /\ ret.items = <<JNum(0), JNum(1)>>

\* C3: every token returned by run or resume carries resumeAtIndex equal to
\* stageIndex + 1, and a token returned by run carries as resumeAtIndex the
\* position of the halting gate in the pipeline plus one.
C3_TokenIndices ==
  (pc = "ready" /\ result.status = "needs_approval") =>
    /\ Get(Carried, Txt.stageIndex).t = "num"
    /\ Get(Carried, Txt.resumeAtIndex) = JNum(Get(Carried, Txt.stageIndex).n + 1)
    /\ call.op = "run" =>
         /\ Get(Carried, Txt.resumeAtIndex) = JNum(LastRun + 1)
         /\ stages[LastRun + 1].kind = "approve"

C3_Witness ==
  /\ pc = "ready"
  /\ result.status = "needs_approval"
  /\ call.op = "run"
  /\ Get(Carried, Txt.resumeAtIndex) = JNum(3)

\* The only stages of the pipeline that halt are approval gates.
OnlyGatesHalt == \A k \in 1..Len(stages) : stages[k].kind # "haltraw"

NumGates == Cardinality({k \in 1..Len(stages) : stages[k].kind = "approve"})

\* C4: when a pipeline of approval gates is run and each returned token is
\* resumed with approved = true, in order, each token carries as
\* resumeAtIndex the absolute position of the stage after the gate that
\* halted, no stage runs twice, and when the last resume ends with status ok
\* every stage of the pipeline has run exactly once.
C4_GatesResumeInOrder ==
  (chain /\ OnlyGatesHalt /\ pc = "ready") =>
    /\ \A k \in 1..Len(stages) : execCount[k] <= 1
    /\ result.status = "needs_approval" =>
         /\ stages[LastRun + 1].kind = "approve"
         /\ Get(Carried, Txt.resumeAtIndex) = JNum(LastRun + 1)
         /\ \A k \in 1..Len(stages) : execCount[k] = (IF k <= LastRun + 1 THEN 1 ELSE 0)
    /\ result.status = "ok" => \A k \in 1..Len(stages) : execCount[k] = 1

C4_Witness ==
  /\ chain
  /\ pc = "ready"
  /\ calls = 3
  /\ result.status = "ok"
  /\ NumGates = 2
  /\ Len(stages) = 4
  /\ stages[1].kind = "approve"
  /\ stages[3].kind = "approve"
  /\ \A k \in 1..Len(stages) : execCount[k] = 1

\* C5: a resume with approved = true of the token just returned enters the
\* stage loop at the stage after the gate with exactly the items the gate
\* received from upstream.
C5_ResumeInputIsGateInput ==
  (chain /\ call.op = "resume" /\ pc = "loop" /\ executed = <<>>) =>
    /\ stream = gateInput

\* C6: a resume with approved = false returns the cancelled result (status
\* cancelled, empty output, no approval request) without invoking any stage,
\* whatever the token, and a repeated call returns the same result.
C6_CancelInvokesNothing ==
  (call.op = "resume" /\ ~call.approved) =>
    /\ pc = "ready"
    /\ executed = <<>>
    /\ ret = NoRet
    /\ result.ok
    /\ result.status = "cancelled"
    /\ result.output = <<>>
    /\ result.requiresApproval = JNull
    /\ (prevCall.op = "resume" /\ ~prevCall.approved) => result = prevResult

C6_Witness ==
  /\ call.op = "resume"
  /\ ~call.approved
  /\ prevCall.op = "resume"
  /\ ~prevCall.approved
  /\ prevCall.token = call.token
  /\ call.token \in issued
  /\ result = prevResult
  /\ result.status = "cancelled"

(***************************************************************************)
(* Properties of the codec.                                                *)
(***************************************************************************)
\* C7: decoding the token of a halt record built from JSON values gives a
\* record structurally equal to the one encoded.
C7_RoundTrip ==
  (tkSrc # NoValue /\ ~tkCut /\ tkOut # NoValue) => tkOut = [ok |-> TRUE, v |-> tkSrc]

C7_Witness ==
  /\ ~tkCut
  /\ tkOut = [ok |-> TRUE, v |-> tkSrc]
  /\ Get(tkSrc, Txt.pipeline) # NoValue
  /\ Get(tkSrc, Txt.prompt) = JStr(Txt.quoted)
  /\ Get(tkSrc, Txt.stageIndex) = JNum(-1)
  /\ Get(tkSrc, Txt.items) = JArr(<<JStr(Txt.accent), JStr(Txt.backslash)>>)

\* The record has a version and the members resume reads.
IsHaltRecord(val) ==
  /\ val.t = "obj"
  /\ Get(val, Txt.protocolVersion) = JNum(1) \/ Get(val, Txt.v) = JNum(1)
  /\ Get(val, Txt.resumeAtIndex).t = "num"
  /\ Get(val, Txt.items).t = "arr"

\* C8: decoding is all or nothing: it fails with "Invalid token" on a token
\* that is malformed, cut short, not JSON or without version, and what it
\* returns otherwise is a whole halt record.
C8_DecodeAllOrNothing ==
  tkOut # NoValue => (tkOut = InvalidToken \/ (tkOut.ok /\ IsHaltRecord(tkOut.v)))

(***************************************************************************)
(* Properties of llm_task.invoke.                                          *)
(***************************************************************************)
\* The invalid responses an invocation got before its last one.
InvalidBefore(inv) ==
  Cardinality({i \in 1..(Len(inv.responses) - 1) :
                 inv.responses[i] \in {"invalid", "not_object"}})

\* C9: with an output schema, an invocation makes at most
\* max-validation-retries + 1 transport calls: after N invalid responses it
\* fails when the bound is N - 1, and when the bound is N and the next
\* response is valid it succeeds with attemptCount = N + 1.
C9_RetryBound ==
  (llm.phase # "idle" /\ llm.validator) =>
    /\ llm.calls <= llm.maxValidationRetries + 1
    /\ (llm.phase = "done" /\ llm.outcome.status = "ok" /\ llm.calls > 0) =>
         /\ InvalidBefore(llm) <= llm.maxValidationRetries
         /\ llm.outcome.items[1].attemptCount = InvalidBefore(llm) + 1

\* The items without their provenance.
Unserved(items) ==
  [i \in 1..Len(items) |-> [items[i] EXCEPT !.source = "", !.cached = FALSE]]

\* C10: when a call with a run key and no refresh succeeds and is issued
\* again, the second call returns the items of the first with provenance
\* run_state and cached = true, and makes no transport call.
C10_SecondCallFromRunState ==
  (/\ llm.phase = "done"
   /\ prev.phase = "done"
   /\ prev.outcome.status = "ok"
   /\ llm.args = prev.args
   /\ llm.args.stateKey # NoKey
   /\ ~llm.args.refresh) =>
    /\ llm.calls = 0
    /\ llm.outcome.status = "ok"
    /\ Unserved(llm.outcome.items) = Unserved(prev.outcome.items)
    /\ \A i \in 1..Len(llm.outcome.items) :
         llm.outcome.items[i].source = "run_state" /\ llm.outcome.items[i].cached

\* The run-state record an invocation could reuse when it began, or NoValue.
Reusable(inv) ==
  IF inv.args.stateKey = NoKey THEN NoValue
  ELSE pickReusableState(readStateJson(runStateBefore, inv.args.stateKey), inv.cacheKey)

\* The invocation sets neither refresh nor disable-cache and had no reusable
\* run-state record.
CacheEligible(inv) ==
  /\ inv.phase = "done"
  /\ ~inv.args.refresh
  /\ ~inv.args.disableCache
  /\ Reusable(inv) = NoValue

\* The invocation returned the items stored under its cache key, as cached
\* items of provenance cache, without a transport call.
ServedFromCache(inv) ==
  LET entry == readCacheEntry(cacheBefore, inv.cacheKey)
  IN /\ inv.calls = 0
     /\ inv.outcome.status = "ok"
     /\ entry # NoValue
     /\ inv.outcome.items = Served(entry.items, "cache")
     /\ \A i \in 1..Len(inv.outcome.items) :
          inv.outcome.items[i].source = "cache" /\ inv.outcome.items[i].cached

\* C11, as stated: after any successful invocation with the cache enabled,
\* a later invocation of the same cache key without reusable run-state
\* record, refresh or disable-cache is served from the cache with no
\* transport call.
C11_CacheServesAfterSuccess ==
  (/\ CacheEligible(llm)
   /\ \E h \in log : h.cacheKey = llm.cacheKey /\ ~h.disableCache) =>
    ServedFromCache(llm)

\* C11, amended: after a cache-enabled invocation that succeeded on a
\* transport result (the one that writes the entry), every later invocation
\* of the same cache key without reusable run-state record, refresh or
\* disable-cache returns the stored items with provenance cache and
\* cached = true, and makes no transport call.
C11_CacheServesAfterFetch ==
  (/\ CacheEligible(llm)
   /\ \E h \in log : /\ h.cacheKey = llm.cacheKey
                      /\ ~h.disableCache
                      /\ h.source \in {"remote", "clawd"}) =>
    ServedFromCache(llm)

\* A second invocation of a fetched key is served from the cache.
C11_Witness ==
  /\ CacheEligible(llm)
  /\ \E h \in log : /\ h.cacheKey = llm.cacheKey
                     /\ ~h.disableCache
                     /\ h.source \in {"remote", "clawd"}
  /\ ServedFromCache(llm)
  /\ llm.outcome.items[1].attemptCount = 1

\* The record stored under the run key of an invocation when it began.
StoredRecord(inv) ==
  IF inv.args.stateKey = NoKey THEN NoValue
  ELSE readStateJson(runStateBefore, inv.args.stateKey)

\* The run key of the invocation holds the record of another request.
ForeignRecord(inv) ==
  /\ inv.phase # "idle"
  /\ StoredRecord(inv) # NoValue
  /\ StoredRecord(inv).cacheKey # inv.cacheKey

\* The invocation reached the transport.
ReachedTransport(inv) == inv.phase = "loop" \/ inv.calls > 0

\* C12: a result of provenance run_state is the record stored under the run
\* key, and that record carries the cache key derived for the call; under a
\* run key that holds the record of a different request the record is not
\* returned: the call is served from the cache when the cache may be read
\* and has the entry, and reaches the transport otherwise.
C12_RunStateKeyedByCacheKey ==
  /\ (llm.phase = "done" /\ llm.outcome.status = "ok"
        /\ llm.outcome.items[1].source = "run_state") =>
       /\ StoredRecord(llm) # NoValue
       /\ StoredRecord(llm).cacheKey = llm.cacheKey
       /\ llm.outcome.items = Served(StoredRecord(llm).items, "run_state")
  /\ ForeignRecord(llm) =>
       IF ~llm.args.refresh /\ ~llm.args.disableCache
          /\ readCacheEntry(cacheBefore, llm.cacheKey) # NoValue
       THEN ServedFromCache(llm)
       ELSE ReachedTransport(llm)

\* A run key that holds the record of another request, and a call that went
\* to the transport and succeeded.
C12_Witness ==
  /\ ForeignRecord(llm)
  /\ llm.phase = "done"
  /\ llm.calls > 0
  /\ llm.outcome.status = "ok"
  /\ readStateJson(runState, llm.args.stateKey).cacheKey = llm.cacheKey

\* C13: an entry of the cache, once written, is never modified or replaced
\* by a later invocation, whatever its refresh, disable-cache and run key.
C13_CacheEntryImmutable ==
  \A k \in CacheKeys : cacheBefore[k] # NoValue => cache[k] = cacheBefore[k]

\* The environment passes the configuration checks of the invocation.
Configured(e) == (e.url \/ e.clawd) /\ ~(TransportOf(e) = "direct" /\ e.model = <<>>)

\* C14: with refresh set, a configured invocation skips both lookups: it
\* goes to the transport and its result never has provenance run_state or
\* cache, whatever the two stores hold for its key.
C14_RefreshSkipsLookups ==
  (llm.phase # "idle" /\ llm.args.refresh /\ Configured(procEnv)) =>
    /\ ReachedTransport(llm)
    /\ (llm.phase = "done" /\ llm.outcome.status = "ok") =>
         \A i \in 1..Len(llm.outcome.items) :
           /\ llm.outcome.items[i].source \notin {"run_state", "cache"}
           /\ ~llm.outcome.items[i].cached

\* A refresh of a call whose key has both a reusable run-state record and a
\* cache entry got its result from the transport.
C14_Witness ==
  /\ llm.phase = "done"
  /\ llm.args.refresh
  /\ Reusable(llm) # NoValue
  /\ readCacheEntry(cacheBefore, llm.cacheKey) # NoValue
  /\ llm.calls = 1
  /\ llm.outcome.status = "ok"

\* C15: with disable-cache set, an invocation leaves the cache as it was and
\* never returns provenance cache; run-state is still consulted (a reusable
\* record is served without a transport call unless refresh is set) and
\* after a success with a run key the record of the call is stored under
\* the key.
C15_DisableCacheFrame ==
  (llm.phase # "idle" /\ llm.args.disableCache) =>
    /\ cache = cacheBefore
    /\ (llm.phase = "done" /\ llm.outcome.status = "ok") =>
         \A i \in 1..Len(llm.outcome.items) : llm.outcome.items[i].source # "cache"
    /\ (~llm.args.refresh /\ Reusable(llm) # NoValue) =>
         /\ llm.phase = "done"
         /\ llm.calls = 0
         /\ llm.outcome.status = "ok"
         /\ llm.outcome.items = Served(Reusable(llm).items, "run_state")
    /\ (llm.phase = "done" /\ llm.outcome.status = "ok" /\ llm.args.stateKey # NoKey) =>
         LET record == readStateJson(runState, llm.args.stateKey)
         IN /\ record # NoValue
            /\ record.cacheKey = llm.cacheKey
            /\ Unserved(record.items) = Unserved(llm.outcome.items)

\* A call with disable-cache and a run key, of a key the cache holds, got
\* its result from the transport and wrote the run-state record.
C15_Witness ==
  /\ llm.phase = "done"
  /\ llm.args.disableCache
  /\ llm.args.stateKey # NoKey
  /\ readCacheEntry(cacheBefore, llm.cacheKey) # NoValue
  /\ llm.calls = 1
  /\ llm.outcome.status = "ok"
  /\ runState # runStateBefore
  /\ readStateJson(runState, llm.args.stateKey).items = llm.outcome.items

\* The responses that are transport-level failures.
FailureResponses == {"http_error", "not_json", "bad_envelope", "not_ok"}

\* C16: a transport-level failure (non-success status, body that is not
\* JSON, invalid envelope, ok other than true) on any attempt, a retry
\* after a failed validation included, ends the invocation with an error:
\* it is the last transport call of the invocation.
C16_TransportFailureNotRetried ==
  llm.phase # "idle" =>
    \A i \in 1..Len(llm.responses) :
      llm.responses[i] \in FailureResponses =>
        /\ i = Len(llm.responses)
        /\ llm.calls = i
        /\ llm.phase = "done"
        /\ llm.outcome.status = "error"
        /\ llm.outcome.error # "output failed schema validation"

\* A retry after a failed validation got an envelope whose ok is not true,
\* with a further retry still allowed.
C16_Witness ==
  /\ llm.phase = "done"
  /\ llm.responses = <<"invalid", "not_ok">>
  /\ llm.maxValidationRetries = 1
  /\ llm.outcome = [status |-> "error", error |-> "remote error"]

\* The last response of the invocation passed the transport checks and,
\* with an output schema, satisfies it.
LastResponseValidated(inv) ==
  /\ inv.calls > 0
  /\ inv.responses[Len(inv.responses)] \notin FailureResponses
  /\ inv.validator => inv.responses[Len(inv.responses)] = "valid"

\* C17: an invocation that fails (configuration error, transport failure,
\* invalid envelope, remote error, retries exhausted, the last validation
\* errors being kept for the error) leaves the run-state store and the
\* cache as they were when it began; the stores change only in an
\* invocation that succeeds on a validated transport result.
C17_FailureWritesNothing ==
  /\ (llm.phase = "done" /\ llm.outcome.status = "error") =>
       /\ runState = runStateBefore
       /\ cache = cacheBefore
       /\ llm.outcome.error = "output failed schema validation" =>
            llm.lastValidationErrors # <<>>
  /\ (runState # runStateBefore \/ cache # cacheBefore) =>
       /\ llm.phase = "done"
       /\ llm.outcome.status = "ok"
       /\ LastResponseValidated(llm)

\* An invocation with a run key that holds a record exhausted its retries
\* and failed.
C17_Witness ==
  /\ llm.phase = "done"
  /\ llm.outcome.status = "error"
  /\ llm.outcome.error = "output failed schema validation"
  /\ llm.calls = llm.maxValidationRetries + 2
  /\ StoredRecord(llm) # NoValue
  /\ runState = runStateBefore
  /\ cache = cacheBefore

\* C18: in every state in which an invocation has returned a result it got
\* from the transport, the writes the call requires have happened: with a
\* run key the run-state record of the key holds the returned items under
\* the cache key of the call, and unless disable-cache is set the cache
\* entry of the key holds them.
C18_PersistedBeforeReturn ==
  (llm.phase = "done" /\ llm.outcome.status = "ok" /\ llm.calls > 0) =>
    /\ llm.args.stateKey # NoKey =>
         readStateJson(runState, llm.args.stateKey) =
           [type |-> "llm_task.invoke", version |-> STATE_VERSION,
            cacheKey |-> llm.cacheKey, items |-> llm.outcome.items]
    /\ ~llm.args.disableCache =>
         readCacheEntry(cache, llm.cacheKey) =
           [items |-> llm.outcome.items, cacheKey |-> llm.cacheKey]

\* The first valid result came on the second attempt of a call with a run
\* key and the cache enabled, and is returned with both writes done.
C18_Witness ==
  /\ llm.phase = "done"
  /\ llm.responses = <<"invalid", "valid">>
  /\ llm.outcome.status = "ok"
  /\ llm.args.stateKey # NoKey
  /\ ~llm.args.disableCache
  /\ readStateJson(runState, llm.args.stateKey).items = llm.outcome.items
  /\ readCacheEntry(cache, llm.cacheKey).items = llm.outcome.items
  /\ readStateJson(runStateBefore, llm.args.stateKey) = NoValue
  /\ readCacheEntry(cacheBefore, llm.cacheKey) = NoValue

(***************************************************************************)
(* Properties of the cache key.                                            *)
(***************************************************************************)
\* Two JSON values that differ at most in the order of the keys of their
\* objects.
RECURSIVE SameUpToKeyOrder(_, _)
SameUpToKeyOrder(x, y) ==
  IF x.t # y.t THEN FALSE
  ELSE IF x.t = "obj"
  THEN /\ {x.o[i].k : i \in 1..Len(x.o)} = {y.o[i].k : i \in 1..Len(y.o)}
       /\ Len(x.o) = Len(y.o)
       /\ \A i \in 1..Len(x.o) : SameUpToKeyOrder(x.o[i].v, Get(y, x.o[i].k))
  ELSE IF x.t = "arr"
  THEN /\ Len(x.a) = Len(y.a)
       /\ \A i \in 1..Len(x.a) : SameUpToKeyOrder(x.a[i], y.a[i])
  ELSE x = y

\* Two calls of the same prompt, model, schema version, artifact hashes and
\* output contract, whose metadata, output contract and artifacts differ at
\* most in the order of their keys.
SameRequest(a, b) ==
  /\ a.prompt = b.prompt
  /\ a.model = b.model
  /\ a.schemaVersion = b.schemaVersion
  /\ Len(a.artifacts) = Len(b.artifacts)
  /\ \A i \in 1..Len(a.artifacts) :
       SameUpToKeyOrder(normalizeArtifact(a.artifacts[i]), normalizeArtifact(b.artifacts[i]))
  /\ SameUpToKeyOrder(a.outputSchema, b.outputSchema)
  /\ SameUpToKeyOrder(a.metadata, b.metadata)

\* C19: two calls with the same prompt, model, schema version, artifact
\* hashes and output contract, whose metadata, output-contract and artifact
\* objects differ only in the order of their keys, derive the same cache
\* key.
C19_KeyIgnoresKeyOrder ==
  (kcKeys # NoValue /\ SameRequest(kcCalls[1], kcCalls[2])) => kcKeys[1] = kcKeys[2]

\* Two calls that differ in the key order of the metadata, of the nested
\* output contract and of an artifact have one key.
C19_Witness ==
  /\ kcKeys # NoValue
  /\ kcCalls[1].metadata = Metadata /\ kcCalls[2].metadata = MetadataReordered
  /\ kcCalls[1].outputSchema = ObjectSchema
  /\ kcCalls[2].outputSchema = ObjectSchemaReordered
  /\ kcCalls[1].artifacts[1] = TextArtifact
  /\ kcCalls[2].artifacts[1] = TextArtifactReordered
  /\ SameRequest(kcCalls[1], kcCalls[2])
  /\ kcKeys[1] = kcKeys[2]

\* Two calls that differ in the prompt, the model as given, the schema
\* version, the list of artifact hashes or the output contract.
DifferentRequest(a, b) ==
  \/ a.prompt # b.prompt
  \/ a.model # b.model
  \/ a.schemaVersion # b.schemaVersion
  \/ ArtifactHashes(a.artifacts) # ArtifactHashes(b.artifacts)
  \/ ~SameUpToKeyOrder(a.outputSchema, b.outputSchema)

\* C20: with a hash that is injective, two calls that differ in the prompt,
\* the model (a call without model against a call with any explicit model
\* included), the schema version, the ordered list of artifact hashes or
\* the output contract derive different cache keys.
C20_KeySeparatesRequests ==
  (kcKeys # NoValue /\ DifferentRequest(kcCalls[1], kcCalls[2])) => kcKeys[1] # kcKeys[2]

\* The validation errors of a result that fails the output schema.
ErrorsOfResult(response) ==
  IF response = "invalid" THEN <<"/ must have required property 'decision'">>
  ELSE <<"/ must be object">>

\* C21: the first transport call of an invocation carries no retryContext;
\* the call of attempt k >= 2 carries a retryContext whose attempt is k and
\* whose validationErrors are the errors of the failed validation of
\* attempt k - 1.
C21_RetryContextOfAttempt ==
  (llm.phase # "idle" /\ llm.calls >= 1) =>
    IF llm.calls = 1 THEN llm.retryContext = NoValue
    ELSE llm.retryContext =
           [attempt |-> llm.calls,
            validationErrors |-> ErrorsOfResult(llm.responses[llm.calls - 1])]

\* The third call follows two failed validations with different errors and
\* carries those of the second.
C21_Witness ==
  /\ llm.phase = "done"
  /\ llm.responses = <<"invalid", "not_object", "valid">>
  /\ llm.retryContext = [attempt |-> 3, validationErrors |-> <<"/ must be object">>]

C23_RouterUnwraps ==
  wireOut # NoValue =>
    IF \A i \in 1..Len(wire.oks) : wire.oks[i] = JBool(TRUE)
    THEN /\ wireOut.status = "ok"
         /\ wireOut.items = normalizeResult(wire.result, <<1, 1>>, NoValue, "clawd", 1)
         /\ wireOut.items[1].data = wire.result
    ELSE wireOut.status = "error"

\* A result in two layers, both ok, came out as the result itself.
C23_Witness ==
  /\ wireOut # NoValue
  /\ wire.oks = <<JBool(TRUE), JBool(TRUE)>>
  /\ wireOut.status = "ok"
  /\ wireOut.items[1].data = wire.result
  /\ wireOut.items[1].source = "clawd"

(***************************************************************************)
(* Provenance of the items llm_task.invoke returns.                         *)
(***************************************************************************)
\* The tier that served the invocation, from what it did: a transport call,
\* else the cache if the cache was read, else the run state.
ServingTier(inv) ==
  IF inv.calls > 0
  THEN IF inv.via[Len(inv.via)] = "direct" THEN "remote" ELSE "clawd"
  ELSE IF "cache" \in inv.lookups THEN "cache" ELSE "run_state"

\* C24: every item llm_task.invoke returns has cached = false exactly when
\* its source is a fresh transport call (remote, clawd) and cached = true
\* exactly when its source is cache or run_state, and the source is the tier
\* that served this invocation, whatever source the item was persisted with.
C24_ProvenanceOfServingTier ==
  (llm.phase = "done" /\ llm.outcome.status = "ok") =>
    \A i \in 1..Len(llm.outcome.items) :
      LET item == llm.outcome.items[i]
      IN /\ item.source \in {"remote", "clawd", "cache", "run_state"}
         /\ (item.cached = FALSE) <=> (item.source \in {"remote", "clawd"})
         /\ (item.cached = TRUE) <=> (item.source \in {"cache", "run_state"})
         /\ item.source = ServingTier(llm)

\* An item persisted as remote came back from the cache as cache, cached.
C24_Witness ==
  /\ llm.phase = "done" /\ llm.outcome.status = "ok"
  /\ llm.calls = 0
  /\ "cache" \in llm.lookups
  /\ cacheBefore[llm.cacheKey] # NoValue
  /\ cacheBefore[llm.cacheKey].items[1].source = "remote"
  /\ llm.outcome.items[1].source = "cache"
  /\ llm.outcome.items[1].cached = TRUE

IsComplete(r) == r.ok /\ r.status = "ok" /\ r.requiresApproval = JNull
IsHalt(r) ==
  /\ r.ok /\ r.status = "needs_approval" /\ r.output = <<>>
  /\ DOMAIN r.requiresApproval = {"prompt", "items", "resumeToken"}
  /\ r.requiresApproval.prompt # NoValue
  /\ r.requiresApproval.items # NoValue
  /\ decodeToken(r.requiresApproval.resumeToken).ok
IsCancellation(r) == r.ok /\ r.status = "cancelled" /\ r.output = <<>>
IsError(r) ==
  ~r.ok /\ r.status = "error" /\ r.output = <<>> /\ r.requiresApproval = JNull

\* The promise resolved: run / resume returned r.
IsReturned(r) == r.status \notin {"none", "rejected"}

\* C26: every result Lobster.run and Lobster.resume return is exactly one of
\* a complete result (ok, requiresApproval null), a halt (needs_approval,
\* no output, requiresApproval with prompt, items and resumeToken), a
\* cancellation (cancelled, no output) and an error (ok false, error, no
\* output, requiresApproval null).
C26_ResultShapes ==
  (call.op \in {"run", "resume"} /\ pc = "ready" /\ IsReturned(result)) =>
    Cardinality({ shape \in {"complete", "halt", "cancellation", "error"} :
                    CASE shape = "complete" -> IsComplete(result)
                      [] shape = "halt" -> IsHalt(result)
                      [] shape = "cancellation" -> IsCancellation(result)
                      [] shape = "error" -> IsError(result) }) = 1

\* A halt was resumed and the resumed run ended in an error.
C26_Witness ==
  /\ call.op = "resume" /\ pc = "ready"
  /\ IsHalt(prevResult)
  /\ IsError(result)
  /\ Len(executed) >= 1

(***************************************************************************)
(* Unknown stages and the order in which stages execute.                   *)
(***************************************************************************)
\* The stages that have started executing.
Started(run) == { run.trace[k][2] : k \in 1..Len(run.trace) }

\* The index of the first stage the registry does not know.
FirstUnknown(pipeline) ==
  CHOOSE i \in 0..(Len(pipeline) - 1) :
    /\ pipeline[i + 1] = "unknown"
    /\ \A j \in 0..(i - 1) : pipeline[j + 1] # "unknown"

FinishedBefore(run, i, j) ==
  \A b \in 1..Len(run.trace) :
    run.trace[b] = Start(j) =>
      /\ \E a \in 1..(b - 1) : run.trace[a] = End(i)
      /\ \A a \in 1..Len(run.trace) : run.trace[a][2] = i => a < b

\* C28 as stated: within one run, stage i+1 does not start executing before
\* stage i has finished, whatever the forms of the stages.
C28_StagesSequential ==
  \A i \in 0..(Len(pl.pipeline) - 2) : FinishedBefore(pl, i, i + 1)

\* C28, for the forms the engine runs to their end: a command object or a
\* plain function at index i has finished before any stage after it starts
\* executing, and at most one stage body is started and not ended at a time
\* unless the inner one is a generator function read by the outer one.
C28_EagerStagesSequential ==
  /\ \A i \in 0..(Len(pl.pipeline) - 1) : \A j \in (i + 1)..(Len(pl.pipeline) - 1) :
       pl.pipeline[i + 1] \in {"command", "function"} => FinishedBefore(pl, i, j)
  /\ \A a \in 1..Len(pl.trace) : \A b \in (a + 1)..Len(pl.trace) :
       (pl.trace[a][1] = "start" /\ pl.trace[b][1] = "start"
          /\ \A c \in (a + 1)..(b - 1) : pl.trace[c] # End(pl.trace[a][2])) =>
         pl.pipeline[pl.trace[b][2] + 1] = "generator"

\* A plain function had finished before the stages after it started, and
\* the generator function after it ran inside the command object reading it.
C28_Witness ==
  /\ pl.engine = "internal" /\ pl.pc = "done"
  /\ pl.pipeline = <<"function", "generator", "command">>
  /\ pl.trace = <<Start(0), End(0), Start(2), Start(1), End(1), End(2)>>

(***************************************************************************)
(* The order of the items.                                                 *)
(***************************************************************************)
\* The number of inc stages executed so far in this invocation.
IncsExecuted ==
  Cardinality({ k \in 1..Len(executed) : stages[executed[k] + 1].kind = "inc" })

\* The items of the invocation after n inc stages, each at its own place.
Advanced(items, n) ==
  [k \in 1..Len(items) |->
     IF items[k].t = "num" THEN JNum((items[k].n + n) % (MaxItemValue + 1))
     ELSE items[k]]

\* C29: items keep their production order end to end: the stream between
\* two stages holds the items of the invocation, each at its place, as the
\* stages so far made them; the approval gate lists the items it received
\* in that order in its request and in its pass-through output; and the
\* engine returns the items of the last stage in the order of the stream.
C29_ItemsKeepOrder ==
  (pc \in {"loop", "exit"} \/ ret.state = "returned") =>
    LET flowing == Advanced(call.input, IncsExecuted)
    IN /\ ~halted => stream = flowing
       /\ halted =>
            /\ gateInput = flowing
            /\ IF haltedAt.stage.kind = "approve"
               THEN /\ Len(stream) = 1
                    /\ Get(stream[1], Txt.items) =
                         JArr(IF call.env.engine = "cli" \/ haltedAt.stage.preview
                              THEN flowing ELSE <<>>)
               ELSE stream = flowing
       /\ ret.state = "returned" => ret.items = stream

\* The CLI engine returned two different items that went through an inc
\* stage, an approved gate and another inc stage.
C29_Witness ==
  /\ call.op = "cli" /\ ret.state = "returned" /\ ~ret.halted
  /\ Len(executed) = 3
  /\ stages[1].kind = "inc" /\ stages[2].kind = "approve" /\ stages[3].kind = "inc"
  /\ ret.items = <<JNum(0), JNum(1)>>

(***************************************************************************)
(* Concurrent invocations of llm_task.invoke.                              *)
(***************************************************************************)
\* Both invocations missed both tiers, called the remote and have stored.
BothMissedAndStored == \A p \in Racers : racers[p].pc = "done" /\ racers[p].missed

\* C30: when two invocations of the same request run at once and both miss,
\* the entries they store are the same, so the stored records and every
\* later cache hit are the same whichever of them wrote last.
C30_WriteRaceBenign ==
  BothMissedAndStored =>
    /\ racers[1].items = racers[2].items
    /\ readCacheEntry(cache, RaceKey).items = racers[1].items
    /\ readStateJson(runState, RaceArgs.stateKey).items = racers[1].items
    /\ laterHit # <<>> => laterHit = Served(racers[1].items, "cache")

(***************************************************************************)
(* The outcome of an invocation of the engine.                             *)
(***************************************************************************)
Completed ==
  ret.state = "returned" /\ ~ret.halted /\ Len(executed) = Len(rstages)
HaltedOutcome ==
  /\ ret.state = "returned" /\ ret.halted
  /\ Len(executed) >= 1
  /\ executed[Len(executed)] = call.offset + ret.haltedAt.index
FailedOutcome ==
  /\ ret.state = "threw"
  /\ Len(executed) >= 1
  /\ executed[Len(executed)] = call.offset + idx

\* The stage loop is over: what is left of the engine is the collection of
\* the stream and the return.
LoopOver == pc = "exit" \/ (pc = "loop" /\ idx >= Len(rstages))

IsRequestFor(item, prompt, items) ==
  /\ Get(item, Txt.type) = JStr(Txt.approval_request)
  /\ Get(item, Txt.prompt) = JStr(prompt)
  /\ Get(item, Txt.items) = JArr(items)

\* The gate has to emit: --emit, tool mode, or no terminal.
MustEmit == gate.stage.emit \/ gate.env.mode = "tool" \/ ~gate.env.tty
\* The operator meant yes.
SaidYes == \E a \in OperatorAnswers : a.text = gate.env.answer /\ a.yes

\* The gate of the CLI: a halt with one request for the prompt and all the
\* items when it has to emit; the items passed on after a yes; otherwise
\* Not approved and no stage after it.
CliGateBehaves ==
  IF MustEmit
  THEN /\ gate.outcome = "halted" /\ gate.out.halt /\ ~gate.downstreamRan
       /\ Len(gate.out.output) = 1
       /\ IsRequestFor(gate.out.output[1], gate.stage.prompt, gate.items)
  ELSE IF SaidYes
  THEN /\ ~gate.out.halt /\ ~gate.out.threw /\ gate.out.output = gate.items
       /\ gate.pc = "done" => (gate.downstreamRan /\ gate.downstream = gate.items)
  ELSE /\ gate.out.threw /\ gate.outcome = "Not approved" /\ ~gate.downstreamRan

\* C32 as stated, for both gates: the gate halts whenever it has to emit,
\* with exactly one approval_request carrying the prompt and all the items
\* received; it passes the items on only in interactive mode after a yes;
\* any other answer fails with Not approved and no stage after it runs.
C32_GateAsStated ==
  gate.pc \in {"next", "done"} =>
    IF gate.env.engine = "cli" THEN CliGateBehaves
    ELSE /\ gate.outcome = "halted" /\ gate.out.halt /\ ~gate.downstreamRan
         /\ Len(gate.out.output) = 1
         /\ IsRequestFor(gate.out.output[1], gate.stage.prompt, gate.items)

\* C32, with the gate of the SDK told apart: the CLI gate behaves as
\* stated; the SDK gate always halts with one approval_request carrying the
\* prompt and the count of the items, and the items themselves unless it
\* was built with preview false, when it lists none.
C32_GateHaltsOrPasses ==
  gate.pc \in {"next", "done"} =>
    IF gate.env.engine = "cli" THEN CliGateBehaves
    ELSE /\ gate.outcome = "halted" /\ gate.out.halt /\ ~gate.downstreamRan
         /\ Len(gate.out.output) = 1
         /\ IsRequestFor(gate.out.output[1], gate.stage.prompt,
                         IF gate.stage.preview THEN gate.items ELSE <<>>)
         /\ Get(gate.out.output[1], Txt.itemCount) = JNum(Len(gate.items))

\* In interactive mode the operator typed YES and the stage after the gate
\* got the two items.
C32_Witness ==
  /\ gate.pc = "done" /\ gate.env.engine = "cli"
  /\ ~MustEmit
  /\ gate.env.answer = <<89, 69, 83>>
  /\ gate.downstreamRan /\ Len(gate.downstream) = 2

(***************************************************************************)
(* diff.last and the state keys.                                           *)
(***************************************************************************)
\* Two values are the same but for the order of the keys of their objects.
SameJson(a, b) == SortKeys(a) = SortKeys(b)
DiffRan == stateOp.op = "diffLast" /\ stateOp.threw = ""
Writers == {"stateSet", "writeState", "diffLast", "diffAndStoreValue"}

ReadBack(key) == ReadFile(PathOf[key].path)

\* C40 as stated: a write under one key leaves the value read back under
\* every other non-empty key as it was.
C40_KeysIsolated ==
  [][\A k1, k2 \in {k \in Keys : k # <<>> /\ PathOf[k].ok} :
       (k1 # k2 /\ stateOp'.op \in Writers /\ stateOp'.key = k1 /\ stateOp'.threw = "")
         => ReadBack(k2)' = ReadBack(k2)]_vars

(***************************************************************************)
(* The deterministic email triage.                                         *)
(***************************************************************************)
\* The subject holds urgent or action required, in any letter case.
Actionable(e) ==
  \/ Includes(LowerCase(e.subject), TriageTxt.urgent)
  \/ Includes(LowerCase(e.subject), TriageTxt.actionRequired)
\* The email carries the label UNREAD and its sender is no no-reply address.
Answerable(e) ==
  /\ \E i \in 1..Len(e.labels) : UpperCase(e.labels[i]) = TriageTxt.UNREAD
  /\ ~isLikelyNoReply(e.from)
\* The ids of the emails that pass a test, in the order of the input.
IdsWhere(emails, Test(_)) ==
  LET chosen == SelectSeq(emails, Test)
  IN [i \in 1..Len(chosen) |-> chosen[i].id]

\* C34: the report puts every consumed email in exactly one bucket:
\* needsAction when its subject holds urgent or action required, else
\* needsReply when it is unread and its sender is no no-reply address, else
\* fyi; each bucket lists its ids in input order, and the summary gives the
\* three sizes, which add up to the number of emails consumed.
C34_BucketsPartitionEmails ==
  triage.pc = "done" =>
    LET r == triage.report
        b == r.buckets
    IN /\ b.needsAction = IdsWhere(triage.emails, LAMBDA e : Actionable(e))
       /\ b.needsReply = IdsWhere(triage.emails, LAMBDA e : ~Actionable(e) /\ Answerable(e))
       /\ b.fyi = IdsWhere(triage.emails, LAMBDA e : ~Actionable(e) /\ ~Answerable(e))
       /\ Len(b.needsAction) + Len(b.needsReply) + Len(b.fyi) = Len(triage.emails)
       /\ r.summary = NumChars(Len(b.needsReply)) \o TriageTxt.needReplies
                        \o NumChars(Len(b.needsAction)) \o TriageTxt.needAction
                        \o NumChars(Len(b.fyi)) \o TriageTxt.fyi
       /\ r.emails = triage.emails

\* An unread urgent email from a person went to needsAction and an unread
\* one from a no-reply address to fyi.
C34_Witness ==
  /\ triage.pc = "done" /\ Len(triage.emails) = 2
  /\ Actionable(triage.emails[1]) /\ Answerable(triage.emails[1])
  /\ isLikelyNoReply(triage.emails[2].from) /\ ~Actionable(triage.emails[2])
  /\ triage.report.buckets =
       [needsReply |-> <<>>, needsAction |-> <<TriageTxt.m1>>, fyi |-> <<TriageTxt.m2>>]

(***************************************************************************)
(* What Lobster.run and Lobster.resume hand back.                          *)
(***************************************************************************)
SdkCallDone == pc = "ready" /\ call.op \in {"run", "resume"}

\* C35 as stated: resume decodes the token first: a token that does not
\* decode makes resume fail with Invalid token whatever approved is, and a
\* cancelled result is returned only for a token that decodes.
C35_DecodesBeforeApproval ==
  (SdkCallDone /\ call.op = "resume") =>
    /\ ~decodeToken(call.token).ok =>
         (~result.ok /\ result.status \in {"rejected", "error"})
    /\ result.status = "cancelled" => decodeToken(call.token).ok

\* C38 as stated: status ok is returned only when every stage of the
\* remaining pipeline was executed: after a halt the result is not ok.
C38_OkMeansAllExecuted ==
  (SdkCallDone /\ result.status = "ok") =>
    /\ ~ret.halted
    /\ executed = [i \in 1..Len(rstages) |-> call.offset + i - 1]

\* C39 as stated: run and resume never reject: every failure is a returned
\* result with ok false and status error.
C39_NeverRejects ==
  SdkCallDone =>
    /\ result.status # "rejected"
    /\ ~result.ok => result.status = "error"

(***************************************************************************)
(* The output contract and the cache key of llm_task.invoke.               *)
(***************************************************************************)
LlmOk == llm.phase = "done" /\ llm.outcome.status = "ok"

\* C36: an invocation that gives an output schema and succeeds returns an
\* item whose structured output satisfies the schema, whether the item
\* comes from a transport call, from the cache or from the run state.
C36_ReturnedOutputValidates ==
  (LlmOk /\ llm.args.outputSchema # NoValue) =>
    \A i \in 1..Len(llm.outcome.items) : Validates(llm.outcome.items[i].data)

\* A call with a schema was served from the cache, after calls with and
\* without a schema wrote the stores.
C36_Witness ==
  /\ LlmOk /\ llm.args.outputSchema # NoValue
  /\ llm.calls = 0
  /\ llm.outcome.items[1].source = "cache"
  /\ \E k \in CacheKeys :
       /\ cache[k] # NoValue
       /\ k.outputSchema = JNull
       /\ ~Validates(cache[k].items[1].data)

\* The two calls agree on what the key is made of and differ in the
\* temperature, the maximum of output tokens or the metadata.
DifferInTuningOnly(a, b) ==
  /\ a.prompt = b.prompt
  /\ a.outputSchema = b.outputSchema
  /\ \/ a.temperature # b.temperature
     \/ a.maxOutputTokens # b.maxOutputTokens
     \/ a.metadata # b.metadata

\* C37: a call that follows a successful one and differs from it only in
\* temperature, max-output-tokens or metadata has the same cache key, makes
\* no transport call and returns, from the run state or the cache, the
\* result the earlier call returned.
C37_TuningSharesKey ==
  ( /\ llm.phase # "idle"
    /\ prev.phase = "done" /\ prev.outcome.status = "ok"
    /\ DifferInTuningOnly(prev.args, llm.args) ) =>
    /\ CacheKeyOf(prev.args, procEnv) = llm.cacheKey
    /\ LlmOk
    /\ llm.calls = 0
    /\ llm.outcome.items[1].source \in {"run_state", "cache"}
    /\ llm.outcome.items[1].cached
    /\ llm.outcome.items[1].runId = prev.outcome.items[1].runId
    /\ llm.outcome.items[1].data = prev.outcome.items[1].data

\* A call at temperature 1 got from the cache what a call without a
\* temperature had fetched.
C37_Witness ==
  /\ LlmOk
  /\ prev.phase = "done" /\ prev.outcome.status = "ok"
  /\ prev.args.temperature = NoValue /\ llm.args.temperature = JNum(1)
  /\ prev.args.metadata = llm.args.metadata
  /\ prev.args.maxOutputTokens = llm.args.maxOutputTokens
  /\ prev.args.prompt = llm.args.prompt /\ prev.args.outputSchema = llm.args.outputSchema
  /\ prev.outcome.items[1].source \in {"remote", "clawd"}
  /\ llm.outcome.items[1].source = "cache"
  /\ llm.calls = 0

====
